---- MODULE Spec2Model ----
(***************************************************************************)
(* Session-bootstrapped fetch / normalize / persist pipeline of the        *)
(* exchange-disclosure scrapers (block_deals.py, board_meeting.py,         *)
(* bse_notices.py, corporate_action.py, event_calendar.py,                 *)
(* insider_trading.py, market_data.py, analyst_recommendations.py,         *)
(* mobil_tric.py).                                                         *)
(*                                                                         *)
(* Two state machines share the module:                                    *)
(*   Spec / FairSpec : one run of a feed's run function, one action per    *)
(*                     stage of the function body;                         *)
(*   UnitSpec        : the pure helpers (filters, summary writers, date    *)
(*                     normalisation, HTML row parsing) applied to bounded *)
(*                     inputs.                                             *)
(***************************************************************************)
EXTENDS Integers, Sequences, FiniteSets, TLC

\* ------------------------------------------------------------------ bounds
\* longest JSON array in a payload of the run model
MaxEntries == 2
\* guard on the request counters, above the retry bound of the code
RequestCap == 4
\* longest input list handed to a pure helper in UnitSpec
MaxUnitLen == 2
\* longest HTML table (rows, header included) handed to parse_notices
MaxRows == 3
\* runs of one feed for the same date
MaxRuns == 3

\* ------------------------------------------------------- program constants
\* for attempt in range(3)
MaxAttempts == 3
\* if len(cols) >= 6
MinCols == 6
\* "=" * 60
RuleWidth == 60
\* if attempt < 2: ... await asyncio.sleep(2)
LastRetry == 2

\* --------------------------------------------------------------- JSON data
\* Python None, also what a JSON null decodes to
None == [t |-> "none"]
\* a JSON array
JList(v) == [t |-> "list", v |-> v]
\* a JSON object {"data": v}
JDict(v) == [t |-> "dict", v |-> v]
\* a non-empty JSON object without a "data" key, e.g. {"error": "..."}
ErrDict == [t |-> "errdict"]
\* the JSON object {}
EmptyDict == [t |-> "emptydict"]
\* an array element that is a JSON object with the string fields f
Obj(f) == [t |-> "obj", f |-> f]
\* an array element that is not a JSON object (a string)
Junk == [t |-> "str"]

\* Python truthiness of a decoded JSON value: `if json_data:`
Truthy(j) ==
    \/ j.t \in {"dict", "errdict"}
    \/ j.t = "list" /\ j.v # <<>>

\* item.get(key, '') on a JSON object
Get(item, key) == IF key \in DOMAIN item.f THEN item.f[key] ELSE ""

\* len(json_data) raises TypeError on None
LenRaises(j) == j.t = "none"

\* json_data.get('data', []) raises AttributeError unless json_data is a dict
GetDataRaises(j) == j.t \notin {"dict", "errdict", "emptydict"}

\* data.get('data', []) on a dict
DataOf(j) == IF j.t = "dict" THEN j.v ELSE <<>>

\* what `for item in data` iterates over; a dict yields its keys (strings)
IterOf(j) ==
    CASE j.t = "list" -> j.v
      [] j.t = "dict" -> <<Junk>>
      [] j.t = "errdict" -> <<Junk>>
      [] OTHER -> <<>>

\* `for item in data` raises TypeError on None
IterRaises(j) == j.t = "none"

AllObjects(items) == \A i \in 1..Len(items) : items[i].t = "obj"

\* ------------------------------------------------------------- normalizers
\* a record that takes its date from the key of another feed
BlockDealRecordOtherDate(item) ==
    [symbol |-> Get(item, "BD_SYMBOL"),
     companyName |-> Get(item, "BD_SCRIP_NAME"),
     clientName |-> Get(item, "BD_CLIENT_NAME"),
     buySell |-> Get(item, "BD_BUY_SELL"),
     quantity |-> Get(item, "BD_QTY_TRD"),
     price |-> Get(item, "BD_TP_WATP"),
     date |-> Get(item, "date")]

BlockDealRecord(item) ==
    [symbol |-> Get(item, "BD_SYMBOL"),
     companyName |-> Get(item, "BD_SCRIP_NAME"),
     clientName |-> Get(item, "BD_CLIENT_NAME"),
     buySell |-> Get(item, "BD_BUY_SELL"),
     quantity |-> Get(item, "BD_QTY_TRD"),
     price |-> Get(item, "BD_TP_WATP"),
     date |-> Get(item, "mTIMESTAMP")]

\* a filter whose body raised returns [] from its except clause
filter_block_deals(data) ==
    IF GetDataRaises(data) \/ ~AllObjects(DataOf(data)) THEN <<>>
    ELSE [i \in 1..Len(DataOf(data)) |-> BlockDealRecord(DataOf(data)[i])]

CorporateActionRecord(item) ==
    [symbol |-> Get(item, "symbol"),
     companyName |-> Get(item, "companyName"),
     actionType |-> Get(item, "actionType"),
     exDate |-> Get(item, "exDate"),
     purpose |-> Get(item, "purpose"),
     details |-> Get(item, "details")]

filter_corporate_actions(data) ==
    IF IterRaises(data) \/ ~AllObjects(IterOf(data)) THEN <<>>
    ELSE [i \in 1..Len(IterOf(data)) |-> CorporateActionRecord(IterOf(data)[i])]

EventRecord(item) ==
    [symbol |-> Get(item, "symbol"),
     company |-> Get(item, "company"),
     purpose |-> Get(item, "purpose"),
     description |-> Get(item, "bm_desc"),
     date |-> Get(item, "date")]

filter_event_data(data) ==
    IF IterRaises(data) \/ ~AllObjects(IterOf(data)) THEN <<>>
    ELSE [i \in 1..Len(IterOf(data)) |-> EventRecord(IterOf(data)[i])]

InsiderRecord(item) ==
    [symbol |-> Get(item, "symbol"),
     company |-> Get(item, "company"),
     acquirerName |-> Get(item, "acqName"),
     personCategory |-> Get(item, "personCategory"),
     transactionType |-> Get(item, "tdpTransactionType"),
     securityType |-> Get(item, "secType"),
     securityAcquired |-> Get(item, "secAcq"),
     securityValue |-> Get(item, "secVal"),
     preSharesNo |-> Get(item, "befAcqSharesNo"),
     preSharesPer |-> Get(item, "befAcqSharesPer"),
     postSharesNo |-> Get(item, "afterAcqSharesNo"),
     postSharesPer |-> Get(item, "afterAcqSharesPer"),
     acquisitionMode |-> Get(item, "acqMode"),
     exchange |-> Get(item, "exchange"),
     date |-> Get(item, "date")]

filter_insider_trading(data) ==
    IF GetDataRaises(data) \/ ~AllObjects(DataOf(data)) THEN <<>>
    ELSE [i \in 1..Len(DataOf(data)) |-> InsiderRecord(DataOf(data)[i])]

BoardMeetingEntry(item) ==
    [symbol |-> Get(item, "bm_symbol"),
     companyName |-> Get(item, "sm_name"),
     purpose |-> Get(item, "bm_purpose"),
     boardMeetingDate |-> Get(item, "bm_date"),
     description |-> Get(item, "bm_desc"),
     industry |-> Get(item, "sm_indusrty"),
     isin |-> Get(item, "sm_isin"),
     attachment |-> Get(item, "attachment")]

\* a validation that looks at the symbol alone
SkippedOnSymbolAlone(item) == Get(item, "bm_symbol") = ""

\* if not entry['symbol'] or not entry['companyName']: ... continue
BoardMeetingSkipped(item) ==
    BoardMeetingEntry(item).symbol = "" \/ BoardMeetingEntry(item).companyName = ""

\* a loop that puts each kept entry in front of the list: filtered.insert(0, entry)
RECURSIVE KeepBoardMeetingsReversed(_)
KeepBoardMeetingsReversed(items) ==
    IF items = <<>> THEN <<>>
    ELSE IF BoardMeetingSkipped(Head(items)) THEN KeepBoardMeetingsReversed(Tail(items))
         ELSE KeepBoardMeetingsReversed(Tail(items)) \o <<BoardMeetingEntry(Head(items))>>

RECURSIVE KeepBoardMeetings(_)
KeepBoardMeetings(items) ==
    IF items = <<>> THEN <<>>
    ELSE IF BoardMeetingSkipped(Head(items)) THEN KeepBoardMeetings(Tail(items))
         ELSE <<BoardMeetingEntry(Head(items))>> \o KeepBoardMeetings(Tail(items))

\* index of the first element the loop cannot process (item.get raises), 0 if none
FirstBad(items) ==
    IF AllObjects(items) THEN 0
    ELSE CHOOSE i \in 1..Len(items) :
            /\ items[i].t # "obj"
            /\ \A j \in 1..(i - 1) : items[j].t = "obj"

\* the elements the loop body ran on before it finished or raised
Processed(items) ==
    IF FirstBad(items) = 0 THEN items ELSE SubSeq(items, 1, FirstBad(items) - 1)

\* filter_board_meetings: the returned list and the number of
\* "Skipping invalid entry" warnings it logged
filter_board_meetings_run(data) ==
    IF IterRaises(data) THEN [out |-> <<>>, warnings |-> 0, raised |-> TRUE]
    ELSE [out |-> IF AllObjects(IterOf(data)) THEN KeepBoardMeetings(IterOf(data)) ELSE <<>>,
          warnings |-> Cardinality({i \in 1..Len(Processed(IterOf(data))) :
                                        BoardMeetingSkipped(IterOf(data)[i])}),
          raised |-> ~AllObjects(IterOf(data))]

filter_board_meetings(data) == filter_board_meetings_run(data).out

\* --------------------------------------------------------- summary writers
\* one f.write call of a summary writer
Line(label, value) == [label |-> label, value |-> value]
\* f.write(f"<title> (<from> to <to>)\n")
Header(title) == [label |-> "header", value |-> title]
\* f.write("=" * 60 + "\n\n")
Rule == [label |-> "rule", value |-> "=", width |-> RuleWidth]
\* f.write("No ... found for the specified date range.\n")
NoData(sentence) == [label |-> "nodata", value |-> sentence]

RECURSIVE Flatten(_)
Flatten(ss) == IF ss = <<>> THEN <<>> ELSE Head(ss) \o Flatten(Tail(ss))

BlockDealBlock(item) ==
    <<Line("Symbol", item.symbol), Line("Company", item.companyName),
      Line("Client", item.clientName), Line("Transaction Type", item.buySell),
      Line("Quantity", item.quantity), Line("Price", item.price),
      Line("Date", item.date), Rule>>

save_text_summary_block_deals(data) ==
    <<Header("Block Deals Summary"), Rule>>
        \o Flatten([i \in 1..Len(data) |-> BlockDealBlock(data[i])])

CorporateActionBlock(item) ==
    <<Line("Symbol", item.symbol), Line("Company", item.companyName),
      Line("Action Type", item.actionType), Line("Ex-Date", item.exDate),
      Line("Purpose", item.purpose), Line("Details", item.details), Rule>>

save_text_summary_corporate_action(data) ==
    <<Header("Corporate Actions Summary"), Rule>>
        \o Flatten([i \in 1..Len(data) |-> CorporateActionBlock(data[i])])

EventBlock(item) ==
    <<Line("Symbol", item.symbol), Line("Company", item.company),
      Line("Purpose", item.purpose), Line("Description", item.description),
      Line("Date", item.date), Rule>>

save_text_summary_event_calendar(data) ==
    <<Header("Event Calendar Summary"), Rule>>
        \o Flatten([i \in 1..Len(data) |-> EventBlock(data[i])])

InsiderBlock(item) ==
    <<Line("Symbol", item.symbol), Line("Company", item.company),
      Line("Acquirer Name", item.acquirerName),
      Line("Person Category", item.personCategory),
      Line("Transaction Type", item.transactionType),
      Line("Security Type", item.securityType),
      Line("Securities Acquired", item.securityAcquired),
      Line("Security Value", item.securityValue),
      Line("Pre-Transaction Shares", <<item.preSharesNo, item.preSharesPer>>),
      Line("Post-Transaction Shares", <<item.postSharesNo, item.postSharesPer>>),
      Line("Acquisition Mode", item.acquisitionMode),
      Line("Exchange", item.exchange), Line("Date", item.date), Rule>>

save_text_summary_insider_trading(data) ==
    <<Header("Insider Trading Summary"), Rule>>
        \o Flatten([i \in 1..Len(data) |-> InsiderBlock(data[i])])

BoardMeetingBlock(item) ==
    <<Line("Symbol", item.symbol), Line("Company", item.companyName),
      Line("ISIN", item.isin), Line("Industry", item.industry),
      Line("Purpose", item.purpose), Line("Date", item.boardMeetingDate),
      Line("Description", item.description),
      Line("Attachment", item.attachment), Rule>>

\* a writer without the branch for the empty list
SummaryWithoutNoData(data) ==
    <<Header("NSE Board Meetings Summary"), Rule>>
        \o Flatten([i \in 1..Len(data) |-> BoardMeetingBlock(data[i])])

save_text_summary_board_meeting(data) ==
    <<Header("NSE Board Meetings Summary"), Rule>>
        \o (IF data = <<>>
            THEN <<NoData("No valid board meetings found for the specified date range.")>>
            ELSE Flatten([i \in 1..Len(data) |-> BoardMeetingBlock(data[i])]))

NoticeBlock(item) ==
    <<Line("Notice No", item.noticeNo), Line("Subject", item.subject),
      Line("Subject URL", item.subjectUrl), Line("Segment", item.segment),
      Line("Category", item.category), Line("Department", item.department),
      Line("PDF ID", item.pdfId), Rule>>

save_text_summary_bse_notices(data) ==
    <<Header("BSE Notices Summary"), Rule>>
        \o Flatten([i \in 1..Len(data) |-> NoticeBlock(data[i])])

\* announcement.py writes the decoded entries themselves, with item[key]
AnnouncementFields ==
    <<<<"Symbol", "symbol">>, <<"Company", "sm_name">>, <<"ISIN", "sm_isin">>,
      <<"Description", "desc">>, <<"Announcement Date", "an_dt">>,
      <<"Industry", "smIndustry">>, <<"Details", "attchmntText">>,
      <<"Attachment", "attchmntFile">>>>

\* the fields of an entry written before item[key] raises KeyError, or all
WrittenFields(item) ==
    IF item.t # "obj" THEN 0
    ELSE CHOOSE n \in 0..Len(AnnouncementFields) :
            /\ \A i \in 1..n : AnnouncementFields[i][2] \in DOMAIN item.f
            /\ n < Len(AnnouncementFields) => AnnouncementFields[n + 1][2] \notin DOMAIN item.f

AnnouncementComplete(item) == WrittenFields(item) = Len(AnnouncementFields)

AnnouncementBlock(item) ==
    [i \in 1..WrittenFields(item) |->
        Line(AnnouncementFields[i][1], item.f[AnnouncementFields[i][2]])]
        \o (IF AnnouncementComplete(item) THEN <<Rule>> ELSE <<>>)

\* the loop over the entries ends at the first entry that raises
RECURSIVE AnnouncementBlocks(_)
AnnouncementBlocks(items) ==
    IF items = <<>> THEN <<>>
    ELSE IF AnnouncementComplete(Head(items))
    THEN AnnouncementBlock(Head(items)) \o AnnouncementBlocks(Tail(items))
    ELSE AnnouncementBlock(Head(items))

save_text_summary_announcement(data) ==
    <<Header("NSE Corporate Announcements"), Rule>>
        \o (IF data = <<>>
            THEN <<NoData("No announcements found for the specified date range.")>>
            ELSE AnnouncementBlocks(data))

\* ------------------------------------------------------------ HTML payload
\* a rendered page: whether the notices table is present and its <tr> rows
Html(table, rows) == [t |-> "html", table |-> table, rows |-> rows]

\* a <tr>: its class list, the text of its <td> cells, the <a> of the
\* subject cell (present, with or without href) and the id of the PDF <input>
Row(cls, cells, link, pdf) == [cls |-> cls, cells |-> cells, link |-> link, pdf |-> pdf]
NoLink == [present |-> FALSE, hasHref |-> FALSE, href |-> "", text |-> ""]
Link(href, text) == [present |-> TRUE, hasHref |-> TRUE, href |-> href, text |-> text]
LinkNoHref(text) == [present |-> TRUE, hasHref |-> FALSE, href |-> "", text |-> text]

\* subject_url.startswith('http'), over the hrefs of the model
StartsWithHttp(href) == href \in {"http://cdn/n.pdf", "https://www.bseindia.com/n.pdf"}

\* f"https://www.bseindia.com{subject_url}", over the hrefs of the model
BsePrefixed(href) == IF href = "/n.pdf" THEN "https://www.bseindia.com/n.pdf" ELSE href

\* if subject_url and not subject_url.startswith('http'): prefix it
SubjectUrl(link) ==
    IF ~link.present THEN ""
    ELSE IF link.href # "" /\ ~StartsWithHttp(link.href) THEN BsePrefixed(link.href)
         ELSE link.href

Notice(row) ==
    [noticeNo |-> row.cells[1],
     subject |-> IF row.link.present THEN row.link.text ELSE "",
     subjectUrl |-> SubjectUrl(row.link),
     segment |-> row.cells[3],
     category |-> row.cells[4],
     department |-> row.cells[5],
     pdfId |-> row.pdf]

\* rows = table.find_all('tr'), the header row kept
KeepHeader(rows) == rows

\* rows = table.find_all('tr')[1:]
SkipHeader(rows) == IF rows = <<>> THEN <<>> ELSE Tail(rows)

\* if 'pgr' in row.get('class', []): continue
IsPager(row) == "pgr" \in row.cls

\* if len(cols) >= 6
EnoughCols(row) == Len(row.cells) >= MinCols

\* subject_link['href'] raises KeyError on an <a> without href
RowRaises(row) == ~IsPager(row) /\ EnoughCols(row) /\ row.link.present /\ ~row.link.hasHref

RECURSIVE NoticesOf(_)
NoticesOf(rows) ==
    IF rows = <<>> THEN <<>>
    ELSE IF IsPager(Head(rows)) \/ ~EnoughCols(Head(rows)) THEN NoticesOf(Tail(rows))
         ELSE <<Notice(Head(rows))>> \o NoticesOf(Tail(rows))

parse_notices(html_content) ==
    IF ~html_content.table THEN <<>>
    ELSE IF \E i \in 1..Len(SkipHeader(html_content.rows)) :
                RowRaises(SkipHeader(html_content.rows)[i]) THEN <<>>
         ELSE NoticesOf(SkipHeader(html_content.rows))

\* ---- analyst recommendations page: rows of 'table tbody tr'
\* datetime.strptime(date_str, '%Y-%m-%d') over the date cells of the model
IsoDateParses(date_str) == date_str \in {"2025-04-16", "2025-04-15"}
\* rec_date.date() == today.date(), the run's day being 2025-04-16
IsToday(date_str) == date_str = "2025-04-16"

\* the row is appended: at least 5 cells, a parsable date equal to today
AnalystKept(row) ==
    Len(row.cells) >= 5 /\ IsoDateParses(row.cells[3]) /\ IsToday(row.cells[3])

\* cols[5] raises IndexError on a kept row of exactly 5 cells
AnalystRowRaises(row) == AnalystKept(row) /\ Len(row.cells) < 6

AnalystRecord(row) ==
    [symbol |-> row.cells[1], companyName |-> row.cells[2],
     analyst |-> row.cells[4], recommendation |-> row.cells[5],
     targetPrice |-> row.cells[6], date |-> row.cells[3]]

RECURSIVE RecommendationsOf(_)
RecommendationsOf(rows) ==
    IF rows = <<>> THEN <<>>
    ELSE IF AnalystKept(Head(rows))
         THEN <<AnalystRecord(Head(rows))>> \o RecommendationsOf(Tail(rows))
         ELSE RecommendationsOf(Tail(rows))

filter_analyst_recommendations(html_content) ==
    IF \E i \in 1..Len(html_content.rows) : AnalystRowRaises(html_content.rows[i])
    THEN <<>>
    ELSE RecommendationsOf(html_content.rows)

AnalystBlock(item) ==
    <<Line("Symbol", item.symbol), Line("Company", item.companyName),
      Line("Analyst", item.analyst), Line("Recommendation", item.recommendation),
      Line("Target Price", item.targetPrice), Line("Date", item.date), Rule>>

save_text_summary_analyst(data) ==
    <<Header("Analyst Recommendations Summary"), Rule>>
        \o Flatten([i \in 1..Len(data) |-> AnalystBlock(data[i])])

\* ---- market data
IndexRecord(item) ==
    [indexName |-> Get(item, "index"), date |-> Get(item, "timestamp"),
     open |-> Get(item, "open"), close |-> Get(item, "close"),
     high |-> Get(item, "high"), low |-> Get(item, "low"),
     volume |-> Get(item, "volume")]

TurnoverRecord(item) ==
    [segment |-> Get(item, "segment"), turnover |-> Get(item, "turnover"),
     date |-> Get(item, "date")]

\* `index_data or {}`
OrEmptyDict(j) == IF Truthy(j) THEN j ELSE EmptyDict

filter_market_data(index_data, turnover_data) ==
    IF \/ GetDataRaises(index_data) \/ ~AllObjects(DataOf(index_data))
       \/ GetDataRaises(turnover_data) \/ ~AllObjects(DataOf(turnover_data))
    THEN [index |-> <<>>, turnover |-> <<>>]
    ELSE [index |-> [i \in 1..Len(DataOf(index_data)) |-> IndexRecord(DataOf(index_data)[i])],
          turnover |-> [i \in 1..Len(DataOf(turnover_data)) |->
                            TurnoverRecord(DataOf(turnover_data)[i])]]

\* f.write("-" * 60 + "\n")
DashRule == [label |-> "rule", value |-> "-", width |-> RuleWidth]

IndexBlock(item) ==
    <<Line("Index", item.indexName), Line("Date", item.date), Line("Open", item.open),
      Line("Close", item.close), Line("High", item.high), Line("Low", item.low),
      Line("Volume", item.volume), DashRule>>

TurnoverBlock(item) ==
    <<Line("Segment", item.segment), Line("Turnover", item.turnover),
      Line("Date", item.date), DashRule>>

save_text_summary_market_data(data) ==
    <<Header("Market Data Summary"), Rule, Header("Index Data (NIFTY 50)"), DashRule>>
        \o Flatten([i \in 1..Len(data.index) |-> IndexBlock(data.index[i])])
        \o <<Header("Turnover Data"), DashRule>>
        \o Flatten([i \in 1..Len(data.turnover) |-> TurnoverBlock(data.turnover[i])])

\* --------------------------------------------------------------- the feeds
\* response = await page.goto(api_url); response.ok; response.json()
DirectFeeds == {"block_deals", "corporate_action", "event_calendar", "insider_trading"}
\* response = await page.evaluate("async (url) => ... res.json()", api_url)
InPageFeeds == {"board_meeting"}
\* page.goto + form fill + click + page.content() inside the retry loop
FormFeeds == {"bse_notices"}
Feeds == DirectFeeds \cup InPageFeeds \cup FormFeeds
             \cup {"market_data", "analyst", "mobil_tric", "announcement"}

\* feeds whose run function navigates to a landing page before the fetch loop
BootstrapFeeds == DirectFeeds \cup InPageFeeds \cup {"market_data", "mobil_tric"}

\* the success log line of the attempt: len(json_data.get('data', [])) in
\* block_deals.py and insider_trading.py, len(json_data) in the others,
\* no length taken in market_data.py
LogRaises(f, j) ==
    CASE f \in {"block_deals", "insider_trading"} -> GetDataRaises(j)
      [] f = "market_data" -> FALSE
      [] OTHER -> LenRaises(j)

\* the feed's normalizer applied to the payload
Filter(f, j) ==
    CASE f = "block_deals" -> filter_block_deals(j)
      [] f = "corporate_action" -> filter_corporate_actions(j)
      [] f = "event_calendar" -> filter_event_data(j)
      [] f = "insider_trading" -> filter_insider_trading(j)
      [] f = "board_meeting" -> filter_board_meetings(j)
      [] f = "bse_notices" -> parse_notices(j)
      [] f = "analyst" -> filter_analyst_recommendations(j)

\* the feed's save_text_summary applied to a record list
Summary(f, data) ==
    CASE f = "block_deals" -> save_text_summary_block_deals(data)
      [] f = "corporate_action" -> save_text_summary_corporate_action(data)
      [] f = "event_calendar" -> save_text_summary_event_calendar(data)
      [] f = "insider_trading" -> save_text_summary_insider_trading(data)
      [] f = "board_meeting" -> save_text_summary_board_meeting(data)
      [] f = "bse_notices" -> save_text_summary_bse_notices(data)
      [] f = "analyst" -> save_text_summary_analyst(data)
      [] f = "market_data" -> save_text_summary_market_data(data)
      [] f = "announcement" -> save_text_summary_announcement(data)

\* ------------------------------------------------- inputs of the run model
SeqsUpTo(S, n) == UNION {[1..k -> S] : k \in 0..n}

\* the two keys a feed's entries are identified by
SymKey(f) ==
    CASE f = "block_deals" -> "BD_SYMBOL"
      [] f = "board_meeting" -> "bm_symbol"
      [] OTHER -> "symbol"
NameKey(f) ==
    CASE f = "block_deals" -> "BD_SCRIP_NAME"
      [] f = "board_meeting" -> "sm_name"
      [] f = "corporate_action" -> "companyName"
      [] OTHER -> "company"

\* press-release entries: a dated one, one whose date has no known format,
\* and an element that is not an object
PressRunEntries ==
    {Obj("title" :> <<"B">>
            @@ "date" :> <<"1", "6", "-", "A", "p", "r", "-", "2", "0", "2", "5">>),
     Obj("title" :> <<"A">> @@ "date" :> <<"T", "B", "A">>),
     Junk}

\* array elements upstream may send: a complete entry, an entry without its
\* company name, and an element that is not an object
RunEntries(f) ==
    IF f = "mobil_tric" THEN PressRunEntries
    ELSE {Obj(SymKey(f) :> "SYM" @@ NameKey(f) :> "NAME"), Obj(SymKey(f) :> "SYM"), Junk}

\* bodies of the two endpoints of market_data.py: null, {}, and {"data": [...]}
\* with no element, an object, or an element that is not an object
IndexBodies ==
    {None, EmptyDict, JDict(<<>>), JDict(<<Junk>>),
     JDict(<<Obj("index" :> "NIFTY 50" @@ "timestamp" :> "16-Apr-2025")>>)}
TurnoverBodies ==
    {None, EmptyDict, JDict(<<>>), JDict(<<Junk>>),
     JDict(<<Obj("segment" :> "CM" @@ "turnover" :> "100")>>)}

\* bodies of the announcements endpoint: null, {}, and an array with no
\* entry, a complete entry, or an entry with its symbol alone
AnnouncementBodies ==
    {None, EmptyDict, JList(<<>>), JList(<<Obj("symbol" :> "SYM")>>),
     JList(<<Obj("symbol" :> "SYM" @@ "sm_name" :> "NAME" @@ "sm_isin" :> "INE1"
                @@ "desc" :> "Updates" @@ "an_dt" :> "16-Apr-2025"
                @@ "smIndustry" :> "IT" @@ "attchmntText" :> "text"
                @@ "attchmntFile" :> "a.pdf")>>)}

\* decoded JSON bodies upstream may send
JsonBodies(f) ==
    IF f = "market_data" THEN IndexBodies
    ELSE IF f = "announcement" THEN AnnouncementBodies
    ELSE {None, EmptyDict, ErrDict}
            \cup {JList(s) : s \in SeqsUpTo(RunEntries(f), MaxEntries)}
            \cup {JDict(s) : s \in SeqsUpTo(RunEntries(f), MaxEntries)}

\* rows of a BSE results page: a header row, a notice row, a pager row, a short row
RunRows ==
    {Row({}, <<>>, NoLink, ""),
     Row({}, <<"N1", "", "Equity", "Trading", "Ops", "", "x">>, Link("/n.pdf", "Subject"), "pdf1"),
     Row({"pgr"}, <<"1 2 3">>, NoLink, ""),
     Row({}, <<"N2", "", "Debt">>, NoLink, "")}

BsePages == {Html(tbl, rows) : tbl \in BOOLEAN, rows \in SeqsUpTo(RunRows, MaxEntries)}

\* rows of the analyst page: today's row, an older row, a bad date, a short row
AnalystRows ==
    {Row({}, <<"REL", "Reliance", "2025-04-16", "Firm", "Buy", "1500">>, NoLink, ""),
     Row({}, <<"REL", "Reliance", "2025-04-15", "Firm", "Hold", "1400">>, NoLink, ""),
     Row({}, <<"REL", "Reliance", "n/a", "Firm", "Buy", "1500">>, NoLink, ""),
     Row({}, <<"REL", "Reliance", "2025-04-16", "Firm", "Buy">>, NoLink, "")}

AnalystPages == {Html(TRUE, rows) : rows \in SeqsUpTo(AnalystRows, MaxEntries)}

\* ---------------------------------------------------------------- strings
\* Strings whose characters matter (dates, titles) are sequences of
\* one-character strings; Charset lists the characters in code-point order.
Charset ==
    <<" ", "-", "/", "0", "1", "2", "3", "4", "5", "6", "7", "8", "9", ":",
      "A", "B", "C", "D", "E", "F", "G", "H", "I", "J", "K", "L", "M", "N", "O",
      "P", "Q", "R", "S", "T", "U", "V", "W", "X", "Y", "Z",
      "a", "b", "c", "d", "e", "f", "g", "h", "i", "j", "k", "l", "m", "n", "o",
      "p", "q", "r", "s", "t", "u", "v", "w", "x", "y", "z">>

Ord(c) == CHOOSE i \in 1..Len(Charset) : Charset[i] = c

DigitChars == <<"0", "1", "2", "3", "4", "5", "6", "7", "8", "9">>
IsDigit(c) == \E i \in 1..10 : DigitChars[i] = c
DigitValue(c) == (CHOOSE i \in 1..10 : DigitChars[i] = c) - 1
DigitChar(n) == DigitChars[n + 1]
AllDigits(cs) == \A i \in 1..Len(cs) : IsDigit(cs[i])

RECURSIVE Num(_)
Num(cs) == IF cs = <<>> THEN 0 ELSE 10 * Num(SubSeq(cs, 1, Len(cs) - 1)) + DigitValue(cs[Len(cs)])

\* str.lower() of one character; "A".."Z" are Charset[15..40] and the
\* lower-case letters follow 26 places on
Lower(c) ==
    LET n == Ord(c)
    IN  IF n >= 15 /\ n <= 40 THEN Charset[n + 26] ELSE c
LowerStr(cs) == [i \in 1..Len(cs) |-> Lower(cs[i])]

\* a < b for Python str: lexicographic by code point
RECURSIVE StrLess(_, _)
StrLess(a, b) ==
    IF b = <<>> THEN FALSE
    ELSE IF a = <<>> THEN TRUE
    ELSE IF Head(a) # Head(b) THEN Ord(Head(a)) < Ord(Head(b))
    ELSE StrLess(Tail(a), Tail(b))

\* index of the first occurrence of c in cs, 0 if none
FirstIndex(cs, c) ==
    IF \E i \in 1..Len(cs) : cs[i] = c
    THEN CHOOSE i \in 1..Len(cs) : cs[i] = c /\ \A j \in 1..(i - 1) : cs[j] # c
    ELSE 0

\* ------------------------------------------- datetime.strptime / strftime
MonthAbbrs ==
    <<<<"j", "a", "n">>, <<"f", "e", "b">>, <<"m", "a", "r">>, <<"a", "p", "r">>,
      <<"m", "a", "y">>, <<"j", "u", "n">>, <<"j", "u", "l">>, <<"a", "u", "g">>,
      <<"s", "e", "p">>, <<"o", "c", "t">>, <<"n", "o", "v">>, <<"d", "e", "c">>>>

\* %b, matched case-insensitively: the month number, 0 if cs is no abbreviation
MonthIndex(cs) ==
    LET low == LowerStr(cs)
    IN  IF \E m \in 1..12 : MonthAbbrs[m] = low
        THEN CHOOSE m \in 1..12 : MonthAbbrs[m] = low
        ELSE 0

\* %d: 3[0-1] | [1-2]\d | 0[1-9] | [1-9] | " "[1-9]
DayMatches(cs) ==
    \/ Len(cs) = 1 /\ IsDigit(cs[1]) /\ cs[1] # "0"
    \/ Len(cs) = 2 /\ AllDigits(cs) /\ Num(cs) >= 1 /\ Num(cs) <= 31
    \/ Len(cs) = 2 /\ cs[1] = " " /\ IsDigit(cs[2]) /\ cs[2] # "0"
DayOf(cs) == IF cs[1] = " " THEN Num(Tail(cs)) ELSE Num(cs)

IsLeap(y) == (y % 4 = 0 /\ y % 100 # 0) \/ y % 400 = 0
DaysIn(m, y) ==
    IF m = 2 THEN (IF IsLeap(y) THEN 29 ELSE 28)
    ELSE IF m \in {4, 6, 9, 11} THEN 30 ELSE 31

\* a field of one or two digits not above max: %H (max 23), %M and %S (max 59;
\* %S also matches 60 and 61, which datetime then rejects)
ClockField(cs, max) == Len(cs) \in {1, 2} /\ AllDigits(cs) /\ Num(cs) <= max

NoDate == [ok |-> FALSE, d |-> 0, m |-> 0, y |-> 0, next |-> 0]

\* the prefix of cs matched by "%d-%b-%Y": the date and the index after it
DatePrefix(cs) ==
    LET i == FirstIndex(cs, "-")
    IN  IF i < 2 \/ Len(cs) < i + 8 THEN NoDate
        ELSE LET day == SubSeq(cs, 1, i - 1)
                 mon == MonthIndex(SubSeq(cs, i + 1, i + 3))
                 year == SubSeq(cs, i + 5, i + 8)
             IN  IF /\ DayMatches(day)
                    /\ mon > 0
                    /\ cs[i + 4] = "-"
                    /\ AllDigits(year)
                    /\ Num(year) >= 1
                    /\ DayOf(day) <= DaysIn(mon, Num(year))
                 THEN [ok |-> TRUE, d |-> DayOf(day), m |-> mon, y |-> Num(year),
                       next |-> i + 9]
                 ELSE NoDate

\* number of leading spaces of cs
RECURSIVE LeadingSpaces(_)
LeadingSpaces(cs) ==
    IF cs = <<>> \/ Head(cs) # " " THEN 0 ELSE 1 + LeadingSpaces(Tail(cs))

\* cs is "%H:%M:%S" in full
ClockMatches(cs) ==
    LET i == FirstIndex(cs, ":")
        rest == SubSeq(cs, i + 1, Len(cs))
        j == FirstIndex(rest, ":")
    IN  /\ i > 1
        /\ j > 1
        /\ ClockField(SubSeq(cs, 1, i - 1), 23)
        /\ ClockField(SubSeq(rest, 1, j - 1), 59)
        /\ ClockField(SubSeq(rest, j + 1, Len(rest)), 59)

\* datetime.strptime(date, "%d-%b-%Y %H:%M:%S") does not raise
ParsesWithTime(cs) ==
    LET p == DatePrefix(cs)
        rest == SubSeq(cs, p.next, Len(cs))
    IN  /\ p.ok
        /\ LeadingSpaces(rest) >= 1
        /\ ClockMatches(SubSeq(rest, LeadingSpaces(rest) + 1, Len(rest)))

\* datetime.strptime(date, "%d-%b-%Y") does not raise
ParsesDateOnly(cs) == DatePrefix(cs).ok /\ DatePrefix(cs).next = Len(cs) + 1

\* .strftime("%d-%m-%Y")
Pad2(n) == <<DigitChar(n \div 10), DigitChar(n % 10)>>
Year4(y) ==
    <<DigitChar(y \div 1000), DigitChar((y \div 100) % 10), DigitChar((y \div 10) % 10),
      DigitChar(y % 10)>>
FormatDMY(p) == Pad2(p.d) \o <<"-">> \o Pad2(p.m) \o <<"-">> \o Year4(p.y)

\* the with-time format alone, without the date-only fallback
NormalizeWithTimeOnly(date) ==
    IF ParsesWithTime(date) THEN FormatDMY(DatePrefix(date)) ELSE date

\* mobil_tric.py 37-43: the with-time format, then the date-only format,
\* else the string as it came
NormalizeDate(date) ==
    IF ParsesWithTime(date) THEN FormatDMY(DatePrefix(date))
    ELSE IF ParsesDateOnly(date) THEN FormatDMY(DatePrefix(date))
    ELSE date

\* "Unknown Date" and "N/A", the defaults of entry.get in mobil_tric.py
UnknownDate == <<"U", "n", "k", "n", "o", "w", "n", " ", "D", "a", "t", "e">>
NA == <<"N", "/", "A">>

\* entry.get(key, default)
GetOr(item, key, default) == IF key \in DOMAIN item.f THEN item.f[key] ELSE default

PressRelease(entry) ==
    [title |-> GetOr(entry, "title", NA),
     description |-> GetOr(entry, "description", NA),
     category |-> GetOr(entry, "category", NA),
     link |-> GetOr(entry, "link", NA),
     time |-> GetOr(entry, "time", NA)]

\* the key an entry is filed under
DateKey(entry) == NormalizeDate(GetOr(entry, "date", UnknownDate))

\* structured_data after the loop: the keys in insertion order
RECURSIVE KeysInOrder(_)
KeysInOrder(entries) ==
    IF entries = <<>> THEN <<>>
    ELSE LET front == KeysInOrder(SubSeq(entries, 1, Len(entries) - 1))
             key == DateKey(entries[Len(entries)])
         IN  IF \E i \in 1..Len(front) : front[i] = key THEN front
             ELSE Append(front, key)

\* structured_data[date]: the records filed under a key, in source order
RECURSIVE GroupOf(_, _)
GroupOf(entries, key) ==
    IF entries = <<>> THEN <<>>
    ELSE IF DateKey(Head(entries)) = key
         THEN <<PressRelease(Head(entries))>> \o GroupOf(Tail(entries), key)
         ELSE GroupOf(Tail(entries), key)

\* sorted(): stable insertion of x into an already sorted sequence
RECURSIVE InsertKey(_, _)
InsertKey(x, sorted) ==
    IF sorted = <<>> THEN <<x>>
    ELSE IF StrLess(x, Head(sorted)) THEN <<x>> \o sorted
    ELSE <<Head(sorted)>> \o InsertKey(x, Tail(sorted))

RECURSIVE SortKeys(_)
SortKeys(keys) ==
    IF keys = <<>> THEN <<>>
    ELSE InsertKey(keys[Len(keys)], SortKeys(SubSeq(keys, 1, Len(keys) - 1)))

RECURSIVE InsertByTitle(_, _)
InsertByTitle(x, sorted) ==
    IF sorted = <<>> THEN <<x>>
    ELSE IF StrLess(x.title, Head(sorted).title) THEN <<x>> \o sorted
    ELSE <<Head(sorted)>> \o InsertByTitle(x, Tail(sorted))

RECURSIVE SortByTitle(_)
SortByTitle(items) ==
    IF items = <<>> THEN <<>>
    ELSE InsertByTitle(items[Len(items)], SortByTitle(SubSeq(items, 1, Len(items) - 1)))

\* mobil_tric.py 32-61: the structured output the function writes, as the
\* list of its (date, records) pairs; whether the body of the try raised
StructuredData(response) ==
    LET keys == SortKeys(KeysInOrder(IterOf(response)))
    IN  [i \in 1..Len(keys) |->
            [date |-> keys[i], items |-> SortByTitle(GroupOf(IterOf(response), keys[i]))]]

\* `for entry in response` or entry.get raises: the except clause prints the
\* error and nothing is written
StructureRaises(response) == IterRaises(response) \/ ~AllObjects(IterOf(response))

\* ------------------------------------------------------------------ state
VARIABLES
    feed,           \* which run function is executing
    pc,             \* the stage of the run function about to execute
    browser,        \* "none", "open" or "closed"
    closeCalls,     \* number of browser.close() calls issued
    bootstrap,      \* "none", "ok" or "degraded" (landing page timed out)
    landings,       \* navigations to the landing page issued by this run
    attempt,        \* the loop variable of the (current) retry loop
    requests,       \* data requests issued by the first retry loop
    requests2,      \* data requests issued by the turnover loop of market_data
    delays,         \* asyncio.sleep(2) calls between attempts
    json_data,      \* json_data / index_data / html_content of the run function
    payloadStatus,  \* HTTP status class of the response json_data was taken from
    turnover_data,  \* turnover_data of fetch_market_data
    filtered_data,  \* filtered_data / notices_data: bound or not, and its value
    obtainedAt,     \* number of the first attempt that obtained a payload, else 0
    brokeAt,        \* number of the attempt that left the loop by break, else 0
    normalized,     \* the feed's normalizer has been called in this run
    ioFailed,       \* some artifact write of this run raised
    rawFile,        \* the raw payload artifact
    canonFile,      \* the canonical record list artifact
    summaryFile,    \* the summary artifact
    diagFiles,      \* diagnostic files: attempt numbers, 0 for the run-level dump
    outcome,        \* "running", "returned" or "raised"
    retval,         \* what the run function returned or raised
    unitCall,       \* UnitSpec: the helper called and its arguments
    unitResult,     \* UnitSpec: what it returned
    runNo,          \* RerunSpec: number of the current run for the same date
    prevPayload,    \* RerunSpec: the payload of the previous run
    prevDisk,       \* RerunSpec: the artifacts as the previous run left them
    clock,          \* PoolSpec: the day datetime.today() answers with
    pool,           \* PoolSpec: the run each worker is executing
    written         \* PoolSpec: <<worker, path>> for every path a live run wrote

runVars == <<feed, pc, browser, closeCalls, bootstrap, landings, attempt, requests, requests2,
             delays, json_data, payloadStatus, turnover_data, filtered_data, obtainedAt,
             brokeAt,
             normalized, ioFailed, rawFile, canonFile, summaryFile, diagFiles,
             outcome, retval>>
unitVars == <<unitCall, unitResult>>
rerunVars == <<runNo, prevPayload, prevDisk>>
poolVars == <<clock, pool, written>>
vars == <<runVars, unitVars, rerunVars, poolVars>>

fetchVars == <<attempt, requests, requests2, delays, json_data, payloadStatus, turnover_data,
               obtainedAt, brokeAt, diagFiles>>
fileVars == <<rawFile, canonFile, summaryFile, normalized, ioFailed, filtered_data>>
exitVars == <<outcome, retval>>

Absent == [exists |-> FALSE]
File(c) == [exists |-> TRUE, c |-> c]

\* filtered_data before its first assignment, and after
Unbound == [bound |-> FALSE]
Bound(v) == [bound |-> TRUE, v |-> v]

\* return None, None
NoneNone == [kind |-> "none_none"]
\* return filtered_data, summary_filename
Pair(data) == [kind |-> "pair", data |-> data, summary |-> "summary_filename"]
\* return announcements_data, summary_filename: the decoded payload itself
PairJson(j) == [kind |-> "pair_json", data |-> j, summary |-> "summary_filename"]
\* falling off the end of a function without a return value
NoValue == [kind |-> "none"]
Exception(name) == [kind |-> "exception", exc |-> name]

Returns(v) == outcome' = "returned" /\ retval' = v /\ pc' = "done"
Raises(name) == outcome' = "raised" /\ retval' = Exception(name) /\ pc' = "done"

\* filtered_data = [] is assigned before the loop in bse_notices.py
\* (notices_data, line 133); the other run functions assign it after the loop
InitialFiltered(f) == IF f = "bse_notices" THEN Bound(<<>>) ELSE Unbound

\* the payload variable before the loop: announcements_data = [] in
\* announcement.py (line 79), json_data = None in the others
InitialPayload(f) == IF f = "announcement" THEN JList(<<>>) ELSE None

RunInit ==
    /\ feed \in Feeds
    /\ pc = "launch"
    /\ browser = "none"
    /\ closeCalls = 0
    /\ bootstrap = "none"
    /\ landings = 0
    /\ attempt = 0
    /\ requests = 0
    /\ requests2 = 0
    /\ delays = 0
    /\ json_data = InitialPayload(feed)
    /\ payloadStatus = "none"
    /\ turnover_data = None
    /\ filtered_data = InitialFiltered(feed)
    /\ obtainedAt = 0
    /\ brokeAt = 0
    /\ normalized = FALSE
    /\ ioFailed = FALSE
    /\ rawFile = Absent
    /\ canonFile = Absent
    /\ summaryFile = Absent
    /\ diagFiles = {}
    /\ outcome = "running"
    /\ retval = NoValue

UnitIdle ==
    /\ unitCall = [fn |-> "none"]
    /\ unitResult = [fn |-> "none"]

\* the first run for its date: nothing on disk from an earlier run
RerunIdle ==
    /\ runNo = 1
    /\ prevPayload = None
    /\ prevDisk = [raw |-> Absent, canon |-> Absent, summary |-> Absent, ioFailed |-> FALSE]

\* no worker pool: the runs of the other specifications execute alone
Workers == {1, 2}
NoRun == [feed |-> "none"]
PoolIdle ==
    /\ clock = [d |-> 16, m |-> 4, y |-> 2025]
    /\ pool = [w \in Workers |-> NoRun]
    /\ written = {}

Init == RunInit /\ UnitIdle /\ RerunIdle /\ PoolIdle

\* open(filename, 'a'): the new content after what the file held
AppendTo(old, c) == IF old.exists THEN File(<<old.c, c>>) ELSE File(c)

\* open(filename, 'w') and the writes that follow: the file holds the new
\* content alone, whatever it held before
Overwrite(old, c) == File(c)

\* ------------------------------------------------- bootstrap of the session
\* browser = await p.firefox.launch(headless=True); inside try/except that
\* returns None, None, except in mobil_tric.py where it is unguarded
Launch ==
    /\ pc = "launch"
    /\ \E ok \in BOOLEAN :
        IF ok
        THEN browser' = "open" /\ pc' = "context" /\ UNCHANGED exitVars
        ELSE /\ browser' = browser
             /\ IF feed = "mobil_tric" THEN Raises("Error") ELSE Returns(NoneNone)
    /\ UNCHANGED <<feed, closeCalls, bootstrap, landings, fetchVars, fileVars, unitVars, rerunVars, poolVars>>

\* the stage that follows the creation of the page
AfterContext(f) == IF f \in BootstrapFeeds THEN "bootstrap" ELSE "fetch"

\* context = await browser.new_context(...); page = await context.new_page();
\* on failure: await browser.close(); return None, None (close is not guarded)
NewContext ==
    /\ pc = "context"
    /\ \E ok \in BOOLEAN, closeOk \in BOOLEAN :
        IF ok
        THEN /\ pc' = AfterContext(feed)
             /\ UNCHANGED <<browser, closeCalls, exitVars>>
        ELSE IF feed = "mobil_tric"
        THEN Raises("Error") /\ UNCHANGED <<browser, closeCalls>>
        ELSE /\ closeCalls' = closeCalls + 1
             /\ browser' = IF closeOk THEN "closed" ELSE browser
             /\ IF closeOk THEN Returns(NoneNone) ELSE Raises("Error")
    /\ UNCHANGED <<feed, bootstrap, landings, fetchVars, fileVars, unitVars, rerunVars, poolVars>>

\* the stage that follows the landing page
AfterBootstrap(f) == IF f = "mobil_tric" THEN "screenshot" ELSE "fetch"

\* await page.goto(landing page); await page.wait_for_load_state("networkidle")
\* guarded by `except PlaywrightTimeoutError` alone
Bootstrap ==
    /\ pc = "bootstrap"
    /\ landings' = landings + 1
    /\ \E r \in {"ok", "timeout", "error"} :
        IF r = "error"
        THEN Raises("Error") /\ bootstrap' = "error"
        ELSE /\ bootstrap' = IF r = "ok" THEN "ok" ELSE "degraded"
             /\ pc' = AfterBootstrap(feed)
             /\ UNCHANGED exitVars
    /\ UNCHANGED <<feed, browser, closeCalls, fetchVars, fileVars, unitVars, rerunVars, poolVars>>

\* ---------------------------------------------------------- the retry loop
\* a loop with no attempt limit (while True)
LoopUnbounded(a) == TRUE

\* for attempt in range(3): the loop body runs for attempt index a
LoopContinues(a) == a < MaxAttempts

\* a loop that sleeps at the end of every iteration
SleepsAlways(a) == TRUE

\* if attempt < 2: logger.info("Retrying after 2 seconds..."); sleep(2)
SleepsAfter(a) == a < LastRetry

\* the stage that follows the first retry loop
AfterLoop(f) == IF f = "market_data" THEN "fetch2" ELSE "persist"

\* outcomes of `await page.goto(api_url)` followed by response.ok and
\* response.json(): a timeout, another error, no response object, a non-success
\* status, a body that is not JSON, or a decoded JSON body
DirectResponses(f) ==
    {[kind |-> k, body |-> None] : k \in {"timeout", "error", "noresp", "status", "badjson"}}
        \cup {[kind |-> "ok", body |-> b] : b \in JsonBodies(f)}

\* a failure handler that leaves the loop: break after the first failure
GivesUp(a, here, after) ==
    /\ delays' = delays
    /\ attempt' = a + 1
    /\ pc' = after

\* an iteration that did not break: the sleep, then the next index or the
\* statement after the loop
Retry(a, here, after) ==
    /\ delays' = IF SleepsAfter(a) THEN delays + 1 ELSE delays
    /\ IF LoopContinues(a + 1)
       THEN attempt' = a + 1 /\ pc' = here
       ELSE attempt' = (IF after = "fetch2" THEN 0 ELSE a + 1) /\ pc' = after

\* break
Break(a, after) ==
    /\ delays' = delays
    /\ attempt' = (IF after = "fetch2" THEN 0 ELSE a)
    /\ pc' = after

\* one iteration of the loop of the direct-navigation feeds
\* (block_deals.py 104-125 and its copies, index loop of market_data.py)
DirectAttempt ==
    /\ pc = "fetch"
    /\ feed \in DirectFeeds \cup {"market_data"}
    /\ requests < RequestCap
    /\ \E r \in DirectResponses(feed), io \in BOOLEAN :
        LET k == attempt + 1
            decoded == r.kind = "ok"
            success == decoded /\ ~LogRaises(feed, r.body)
        IN  /\ requests' = requests + 1
            /\ json_data' = IF decoded THEN r.body ELSE json_data
            /\ payloadStatus' = IF decoded THEN r.kind ELSE payloadStatus
            /\ obtainedAt' = IF obtainedAt = 0 /\ decoded /\ r.body # None
                             THEN k ELSE obtainedAt
            /\ diagFiles' = IF r.kind = "badjson" /\ io
                            THEN diagFiles \cup {k} ELSE diagFiles
            /\ brokeAt' = IF success THEN k ELSE brokeAt
            /\ IF success THEN Break(attempt, AfterLoop(feed))
                          ELSE Retry(attempt, "fetch", AfterLoop(feed))
    /\ UNCHANGED <<feed, browser, closeCalls, bootstrap, landings, requests2, turnover_data,
                   fileVars, exitVars, unitVars, rerunVars, poolVars>>

TurnoverResponses ==
    {[kind |-> k, body |-> None] : k \in {"timeout", "error", "noresp", "status", "badjson"}}
        \cup {[kind |-> "ok", body |-> b] : b \in TurnoverBodies}

\* one iteration of the turnover loop of market_data.py (148-169)
TurnoverAttempt ==
    /\ pc = "fetch2"
    /\ feed = "market_data"
    /\ requests2 < RequestCap
    /\ \E r \in TurnoverResponses, io \in BOOLEAN :
        LET k == attempt + 1
            decoded == r.kind = "ok"
        IN  /\ requests2' = requests2 + 1
            /\ turnover_data' = IF decoded THEN r.body ELSE turnover_data
            /\ diagFiles' = IF r.kind = "badjson" /\ io
                            THEN diagFiles \cup {MaxAttempts + k} ELSE diagFiles
            /\ IF decoded THEN Break(attempt, "persist")
                          ELSE Retry(attempt, "fetch2", "persist")
    /\ UNCHANGED <<feed, browser, closeCalls, bootstrap, landings, requests, json_data, payloadStatus,
                   obtainedAt, brokeAt, fileVars, exitVars, unitVars, rerunVars, poolVars>>

\* outcomes of the in-page fetch: a timeout, another error (the fetch or
\* res.json() rejected), or the decoded body, whatever the HTTP status was
InPageResponses(f) ==
    {[kind |-> k, body |-> None] : k \in {"timeout", "error"}}
        \cup {[kind |-> k, body |-> b] : k \in {"ok", "status"}, b \in JsonBodies(f)}

\* outcomes of the landing-page load that opens every attempt of announcement.py
LandingOutcomes == {"ok", "timeout", "error"}

\* bootstrap after an attempt of announcement.py: a landing-page timeout takes
\* the attempt with it
AfterLanding(b, landing) ==
    IF landing = "timeout" THEN "timed_out"
    ELSE IF landing = "ok" /\ b = "none" THEN "ok" ELSE b

\* one iteration of the loop of announcement.py (80-110): the landing page and
\* the in-page request share one try block
AnnouncementAttempt ==
    /\ pc = "fetch"
    /\ feed = "announcement"
    /\ attempt < RequestCap
    /\ \E landing \in LandingOutcomes, r \in InPageResponses(feed) :
        LET n == requests + 1
            asked == landing = "ok"
            decoded == asked /\ r.kind \in {"ok", "status"}
            success == decoded /\ ~LogRaises(feed, r.body)
        IN  /\ bootstrap' = AfterLanding(bootstrap, landing)
            /\ landings' = landings + 1
            /\ requests' = IF asked THEN n ELSE requests
            /\ json_data' = IF decoded THEN r.body ELSE json_data
            /\ payloadStatus' = IF decoded THEN r.kind ELSE payloadStatus
            /\ obtainedAt' = IF obtainedAt = 0 /\ decoded /\ r.body # None
                             THEN n ELSE obtainedAt
            /\ brokeAt' = IF success THEN n ELSE brokeAt
            /\ IF success THEN Break(attempt, "persist")
                          ELSE Retry(attempt, "fetch", "persist")
    /\ UNCHANGED <<feed, browser, closeCalls, requests2, turnover_data, diagFiles,
                   fileVars, exitVars, unitVars, rerunVars, poolVars>>

\* one iteration of the loop of board_meeting.py (116-145)
InPageAttempt ==
    /\ pc = "fetch"
    /\ feed \in InPageFeeds
    /\ requests < RequestCap
    /\ \E r \in InPageResponses(feed), io \in BOOLEAN :
        LET k == attempt + 1
            decoded == r.kind \in {"ok", "status"}
            success == decoded /\ ~LogRaises(feed, r.body)
            dumped == (r.kind = "error" \/ (decoded /\ ~success)) /\ io
        IN  /\ requests' = requests + 1
            /\ json_data' = IF decoded THEN r.body ELSE json_data
            /\ payloadStatus' = IF decoded THEN r.kind ELSE payloadStatus
            /\ obtainedAt' = IF obtainedAt = 0 /\ decoded /\ r.body # None
                             THEN k ELSE obtainedAt
            /\ diagFiles' = IF dumped THEN diagFiles \cup {k} ELSE diagFiles
            /\ brokeAt' = IF success THEN k ELSE brokeAt
            /\ IF success THEN Break(attempt, "persist")
                          ELSE Retry(attempt, "fetch", "persist")
    /\ UNCHANGED <<feed, browser, closeCalls, bootstrap, landings, requests2, turnover_data,
                   fileVars, exitVars, unitVars, rerunVars, poolVars>>

\* outcomes of goto + form submission + page.content()
FormResponses ==
    {[kind |-> k, body |-> None] : k \in {"timeout", "error"}}
        \cup {[kind |-> "ok", body |-> h] : h \in BsePages}

\* one iteration of the loop of bse_notices.py (135-166)
FormAttempt ==
    /\ pc = "fetch"
    /\ feed \in FormFeeds
    /\ requests < RequestCap
    /\ \E r \in FormResponses :
        LET k == attempt + 1
            loaded == r.kind = "ok"
            notices == IF loaded THEN parse_notices(r.body) ELSE <<>>
            success == loaded /\ notices # <<>>
        IN  /\ requests' = requests + 1
            /\ json_data' = IF loaded THEN r.body ELSE json_data
            /\ payloadStatus' = IF loaded THEN r.kind ELSE payloadStatus
            /\ filtered_data' = IF loaded THEN Bound(notices) ELSE filtered_data
            /\ normalized' = (normalized \/ loaded)
            /\ obtainedAt' = IF obtainedAt = 0 /\ loaded THEN k ELSE obtainedAt
            /\ brokeAt' = IF success THEN k ELSE brokeAt
            /\ IF success THEN Break(attempt, "persist")
                          ELSE Retry(attempt, "fetch", "persist")
    /\ UNCHANGED <<feed, browser, closeCalls, bootstrap, landings, requests2, turnover_data,
                   diagFiles, rawFile, canonFile, summaryFile, ioFailed, exitVars,
                   unitVars, rerunVars, poolVars>>

\* analyst_recommendations.py 95-108: the single page load, no retry; both
\* except clauses close the browser (unguarded) and return None, None
AnalystFetch ==
    /\ pc = "fetch"
    /\ feed = "analyst"
    /\ requests < RequestCap
    /\ \E r \in {[kind |-> k, body |-> None] : k \in {"timeout", "error"}}
                    \cup {[kind |-> "ok", body |-> h] : h \in AnalystPages},
          closeOk \in BOOLEAN :
        /\ requests' = requests + 1
        /\ IF r.kind = "ok"
           THEN /\ json_data' = r.body
                /\ payloadStatus' = r.kind
                /\ obtainedAt' = 1
                /\ pc' = "persist"
                /\ UNCHANGED <<browser, closeCalls, exitVars>>
           ELSE /\ closeCalls' = closeCalls + 1
                /\ browser' = IF closeOk THEN "closed" ELSE browser
                /\ IF closeOk THEN Returns(NoneNone) ELSE Raises("Error")
                /\ UNCHANGED <<json_data, payloadStatus, obtainedAt>>
    /\ UNCHANGED <<feed, bootstrap, landings, attempt, requests2, delays, turnover_data,
                   brokeAt, diagFiles, fileVars, unitVars, rerunVars, poolVars>>

\* mobil_tric.py 95-108: goto the IPO page, wait for the table, screenshot it;
\* nothing here is guarded
Screenshot ==
    /\ pc = "screenshot"
    /\ \E ok \in BOOLEAN :
        IF ok THEN pc' = "fetch" /\ UNCHANGED exitVars ELSE Raises("Error")
    /\ UNCHANGED <<feed, browser, closeCalls, bootstrap, landings, fetchVars, fileVars, unitVars, rerunVars, poolVars>>

\* mobil_tric.py 6-69, fetch_press_release_data: one in-page fetch, the
\* structuring and the write, all inside one try whose except prints the error
PressReleaseFetch ==
    /\ pc = "fetch"
    /\ feed = "mobil_tric"
    /\ requests < RequestCap
    /\ \E r \in {[kind |-> k, body |-> None] : k \in {"timeout", "error"}}
                    \cup {[kind |-> "ok", body |-> b] : b \in JsonBodies(feed)},
          io \in BOOLEAN :
        LET structured == r.kind = "ok" /\ ~StructureRaises(r.body)
        IN  /\ requests' = requests + 1
            /\ json_data' = IF r.kind = "ok" THEN r.body ELSE json_data
            /\ payloadStatus' = IF r.kind = "ok" THEN r.kind ELSE payloadStatus
            /\ obtainedAt' = IF r.kind = "ok" /\ r.body # None THEN 1 ELSE obtainedAt
            /\ normalized' = structured
            /\ canonFile' = IF structured /\ io THEN Overwrite(canonFile, StructuredData(r.body))
                            ELSE canonFile
            /\ ioFailed' = (structured /\ ~io)
    /\ pc' = "close"
    /\ UNCHANGED <<feed, browser, closeCalls, bootstrap, landings, attempt, requests2, delays,
                   turnover_data, brokeAt, diagFiles, rawFile, summaryFile,
                   filtered_data, exitVars, unitVars, rerunVars, poolVars>>

\* ------------------------------------------------------ persist the artifacts
\* block_deals.py 127-137 and its copies: everything hangs on `if json_data:`
DirectPersist ==
    /\ pc = "persist"
    /\ feed \in DirectFeeds
    /\ \E io1 \in BOOLEAN, io2 \in BOOLEAN :
        IF Truthy(json_data)
        THEN LET filtered == Filter(feed, json_data)
             IN  /\ rawFile' = IF io1 THEN Overwrite(rawFile, json_data) ELSE rawFile
                 /\ filtered_data' = Bound(filtered)
                 /\ normalized' = TRUE
                 /\ summaryFile' = IF filtered # <<>> /\ io2
                                   THEN Overwrite(summaryFile, Summary(feed, filtered)) ELSE summaryFile
                 /\ ioFailed' = (ioFailed \/ ~io1 \/ (filtered # <<>> /\ ~io2))
                 /\ canonFile' = canonFile
        ELSE UNCHANGED fileVars
    /\ pc' = "close"
    /\ UNCHANGED <<feed, browser, closeCalls, bootstrap, landings, fetchVars, exitVars, unitVars, rerunVars, poolVars>>

\* market_data.py 171-181
MarketPersist ==
    /\ pc = "persist"
    /\ feed = "market_data"
    /\ \E io1 \in BOOLEAN, io2 \in BOOLEAN :
        IF Truthy(json_data) \/ Truthy(turnover_data)
        THEN LET filtered == filter_market_data(OrEmptyDict(json_data),
                                                OrEmptyDict(turnover_data))
                 some == filtered.index # <<>> \/ filtered.turnover # <<>>
             IN  /\ rawFile' = IF io1
                               THEN Overwrite(rawFile, [index |-> json_data, turnover |-> turnover_data])
                               ELSE rawFile
                 /\ filtered_data' = Bound(filtered)
                 /\ normalized' = TRUE
                 /\ summaryFile' = IF some /\ io2
                                   THEN Overwrite(summaryFile, Summary(feed, filtered)) ELSE summaryFile
                 /\ ioFailed' = (ioFailed \/ ~io1 \/ (some /\ ~io2))
                 /\ canonFile' = canonFile
        ELSE UNCHANGED fileVars
    /\ pc' = "close"
    /\ UNCHANGED <<feed, browser, closeCalls, bootstrap, landings, fetchVars, exitVars, unitVars, rerunVars, poolVars>>

\* board_meeting.py 147-169: one try around the raw write, the filter, the
\* canonical write and the summary; the else branch writes the empty summary
BoardPersist ==
    /\ pc = "persist"
    /\ feed = "board_meeting"
    /\ \E io1 \in BOOLEAN, io2 \in BOOLEAN, io3 \in BOOLEAN :
        LET filtered == filter_board_meetings(json_data)
        IN  IF Truthy(json_data) /\ ~io1
            THEN /\ filtered_data' = Bound(<<>>)
                 /\ ioFailed' = TRUE
                 /\ UNCHANGED <<rawFile, canonFile, summaryFile, normalized>>
            ELSE IF Truthy(json_data)
            THEN /\ rawFile' = Overwrite(rawFile, json_data)
                 /\ filtered_data' = Bound(filtered)
                 /\ normalized' = TRUE
                 /\ canonFile' = IF filtered # <<>> /\ io2 THEN Overwrite(canonFile, filtered)
                                 ELSE canonFile
                 /\ summaryFile' = IF (filtered = <<>> \/ io2) /\ io3
                                   THEN Overwrite(summaryFile, Summary(feed, filtered)) ELSE summaryFile
                 /\ ioFailed' = (ioFailed \/ (filtered # <<>> /\ ~io2)
                                    \/ ((filtered = <<>> \/ io2) /\ ~io3))
            ELSE /\ filtered_data' = Bound(<<>>)
                 /\ summaryFile' = IF io3 THEN Overwrite(summaryFile, Summary(feed, <<>>)) ELSE summaryFile
                 /\ ioFailed' = (ioFailed \/ ~io3)
                 /\ UNCHANGED <<rawFile, canonFile, normalized>>
    /\ pc' = "close"
    /\ UNCHANGED <<feed, browser, closeCalls, bootstrap, landings, fetchVars, exitVars, unitVars, rerunVars, poolVars>>

\* bse_notices.py 168-184: the JSON and the summary when notices were parsed,
\* else the page as a debugging dump
BsePersist ==
    /\ pc = "persist"
    /\ feed = "bse_notices"
    /\ \E io1 \in BOOLEAN, io2 \in BOOLEAN, io3 \in BOOLEAN :
        LET notices == filtered_data.v
            dump == json_data # None /\ notices = <<>>
        IN  /\ canonFile' = IF notices # <<>> /\ io1 THEN Overwrite(canonFile, notices) ELSE canonFile
            /\ summaryFile' = IF notices # <<>> /\ io2
                              THEN Overwrite(summaryFile, Summary(feed, notices)) ELSE summaryFile
            /\ diagFiles' = IF dump /\ io3 THEN diagFiles \cup {0} ELSE diagFiles
            /\ ioFailed' = (ioFailed \/ (notices # <<>> /\ (~io1 \/ ~io2))
                                \/ (dump /\ ~io3))
    /\ pc' = "close"
    /\ UNCHANGED <<feed, browser, closeCalls, bootstrap, landings, attempt, requests, requests2,
                   delays, json_data, payloadStatus, turnover_data, obtainedAt, brokeAt, rawFile,
                   normalized, filtered_data, exitVars, unitVars, rerunVars, poolVars>>

\* analyst_recommendations.py 110-112
AnalystPersist ==
    /\ pc = "persist"
    /\ feed = "analyst"
    /\ \E io \in BOOLEAN :
        LET filtered == Filter(feed, json_data)
        IN  /\ filtered_data' = Bound(filtered)
            /\ normalized' = TRUE
            /\ summaryFile' = IF filtered # <<>> /\ io
                              THEN Overwrite(summaryFile, Summary(feed, filtered)) ELSE summaryFile
            /\ ioFailed' = (ioFailed \/ (filtered # <<>> /\ ~io))
    /\ pc' = "close"
    /\ UNCHANGED <<feed, browser, closeCalls, bootstrap, landings, fetchVars, rawFile, canonFile,
                   exitVars, unitVars, rerunVars, poolVars>>

\* ------------------------------------------------------- release and return
\* try: await browser.close() / except Exception: logger.error(...)
\* the page dump written after the loop, outside any attempt
AfterLoopDump == 0

\* announcement.py 112-128: raw JSON and summary in one try block when data
\* was fetched, else the summary of [] and a dump of the page
AnnouncementPersist ==
    /\ pc = "persist"
    /\ feed = "announcement"
    /\ \E io1 \in BOOLEAN, io2 \in BOOLEAN, io3 \in BOOLEAN :
        IF Truthy(json_data)
        THEN /\ rawFile' = IF io1 THEN Overwrite(rawFile, json_data) ELSE rawFile
             /\ summaryFile' = IF io1 /\ io2
                               THEN Overwrite(summaryFile, Summary(feed, IterOf(json_data)))
                               ELSE summaryFile
             /\ ioFailed' = (ioFailed \/ ~io1 \/ ~io2)
             /\ diagFiles' = diagFiles
        ELSE /\ summaryFile' = IF io2 THEN Overwrite(summaryFile, Summary(feed, <<>>))
                               ELSE summaryFile
             /\ diagFiles' = IF io3 THEN diagFiles \cup {AfterLoopDump} ELSE diagFiles
             /\ ioFailed' = (ioFailed \/ ~io2 \/ ~io3)
             /\ rawFile' = rawFile
    /\ pc' = "close"
    /\ UNCHANGED <<feed, browser, closeCalls, bootstrap, landings, attempt, requests, requests2,
                   delays, json_data, payloadStatus, turnover_data, obtainedAt, brokeAt, canonFile,
                   normalized, filtered_data, exitVars, unitVars, rerunVars, poolVars>>

\* a run function that goes on using the page after browser.close()
AfterCloseReuses(f) == "persist"

\* the statement after the guarded browser.close(): the return
AfterClose(f) == "return"

Close ==
    /\ pc = "close"
    /\ feed # "mobil_tric"
    /\ closeCalls < RequestCap
    /\ \E closeOk \in BOOLEAN :
        /\ closeCalls' = closeCalls + 1
        /\ browser' = IF closeOk THEN "closed" ELSE browser
    /\ pc' = AfterClose(feed)
    /\ UNCHANGED <<feed, bootstrap, landings, fetchVars, fileVars, exitVars, unitVars, rerunVars, poolVars>>

\* mobil_tric.py 114: await browser.close(), unguarded, then the function ends
MobilClose ==
    /\ pc = "close"
    /\ feed = "mobil_tric"
    /\ \E closeOk \in BOOLEAN :
        /\ closeCalls' = closeCalls + 1
        /\ browser' = IF closeOk THEN "closed" ELSE browser
        /\ IF closeOk THEN Returns(NoValue) ELSE Raises("Error")
    /\ UNCHANGED <<feed, bootstrap, landings, fetchVars, fileVars, unitVars, rerunVars, poolVars>>

\* return filtered_data, summary_filename: reading a name that was never
\* assigned raises UnboundLocalError
Return ==
    /\ pc = "return"
    /\ IF feed = "announcement" THEN Returns(PairJson(json_data))
       ELSE IF filtered_data.bound THEN Returns(Pair(filtered_data.v))
       ELSE Raises("UnboundLocalError")
    /\ UNCHANGED <<feed, browser, closeCalls, bootstrap, landings, fetchVars, fileVars, unitVars, rerunVars, poolVars>>

Next ==
    \/ Launch
    \/ NewContext
    \/ Bootstrap
    \/ DirectAttempt
    \/ TurnoverAttempt
    \/ InPageAttempt
    \/ AnnouncementAttempt
    \/ FormAttempt
    \/ AnalystFetch
    \/ Screenshot
    \/ PressReleaseFetch
    \/ DirectPersist
    \/ MarketPersist
    \/ BoardPersist
    \/ AnnouncementPersist
    \/ BsePersist
    \/ AnalystPersist
    \/ Close
    \/ MobilClose
    \/ Return

Spec == Init /\ [][Next]_vars

\* a run function, once called, keeps executing: every await either returns
\* or times out
FairSpec == Spec /\ WF_vars(Next)

\* ------------------------------------------- runs repeated for the same date
\* A third specification runs one feed several times for the same date: the
\* file names depend on the date alone, so every run finds the files of the
\* runs before it.  Each run is taken from the end of its fetch stage.
RerunFeeds == {"block_deals", "board_meeting"}

\* the payload a feed's endpoint answers with, given the array of its entries
Wrap(f, entries) == IF f \in InPageFeeds THEN JList(entries) ELSE JDict(entries)

\* what the fetch stage of a rerun may end with: nothing, an empty array, one
\* complete entry, another complete entry, an entry without its company name
RerunPayloads(f) ==
    {None} \cup
    {Wrap(f, es) : es \in
        {<<>>,
         <<Obj(SymKey(f) :> "SYM" @@ NameKey(f) :> "NAME")>>,
         <<Obj(SymKey(f) :> "SYM2" @@ NameKey(f) :> "NAME2")>>,
         <<Obj(SymKey(f) :> "SYM")>>}}

\* the loop variables after a fetch stage that ended with payload j: a break
\* at the first attempt, or three failed attempts
FetchEnded(j) ==
    /\ json_data' = j
    /\ payloadStatus' = IF j = None THEN "none" ELSE "ok"
    /\ attempt' = IF j = None THEN MaxAttempts ELSE 0
    /\ requests' = IF j = None THEN MaxAttempts ELSE 1
    /\ delays' = IF j = None THEN LastRetry ELSE 0
    /\ obtainedAt' = IF j = None THEN 0 ELSE 1
    /\ brokeAt' = IF j = None THEN 0 ELSE 1

RerunInit ==
    /\ feed \in RerunFeeds
    /\ pc = "persist"
    /\ browser = "open"
    /\ closeCalls = 0
    /\ bootstrap = "ok"
    /\ landings = 1
    /\ json_data \in RerunPayloads(feed)
    /\ payloadStatus = (IF json_data = None THEN "none" ELSE "ok")
    /\ attempt = (IF json_data = None THEN MaxAttempts ELSE 0)
    /\ requests = (IF json_data = None THEN MaxAttempts ELSE 1)
    /\ requests2 = 0
    /\ delays = (IF json_data = None THEN LastRetry ELSE 0)
    /\ obtainedAt = (IF json_data = None THEN 0 ELSE 1)
    /\ brokeAt = (IF json_data = None THEN 0 ELSE 1)
    /\ turnover_data = None
    /\ filtered_data = InitialFiltered(feed)
    /\ normalized = FALSE
    /\ ioFailed = FALSE
    /\ rawFile = Absent
    /\ canonFile = Absent
    /\ summaryFile = Absent
    /\ diagFiles = {}
    /\ outcome = "running"
    /\ retval = NoValue
    /\ UnitIdle
    /\ RerunIdle
    /\ PoolIdle

\* the scheduler starts the feed again for the same date, once the run before
\* has written what it writes
StartNextRun ==
    /\ pc = "close"
    /\ runNo < MaxRuns
    /\ runNo' = runNo + 1
    /\ prevPayload' = json_data
    /\ prevDisk' = [raw |-> rawFile, canon |-> canonFile, summary |-> summaryFile,
                    ioFailed |-> ioFailed]
    /\ \E j \in RerunPayloads(feed) : FetchEnded(j)
    /\ filtered_data' = InitialFiltered(feed)
    /\ normalized' = FALSE
    /\ ioFailed' = FALSE
    /\ pc' = "persist"
    /\ UNCHANGED <<feed, browser, closeCalls, bootstrap, landings, requests2, turnover_data,
                   rawFile, canonFile, summaryFile, diagFiles, exitVars, unitVars, poolVars>>

RerunNext ==
    \/ DirectPersist
    \/ BoardPersist
    \/ StartNextRun

RerunSpec == RerunInit /\ [][RerunNext]_vars

\* ------------------------------------------------- the helpers on their own
\* A second specification makes one call of one pure helper of the feeds, on
\* an input drawn from a bounded set; the run variables stay idle.
RunIdle ==
    /\ feed = "none"
    /\ pc = "idle"
    /\ browser = "none"
    /\ closeCalls = 0
    /\ bootstrap = "none"
    /\ landings = 0
    /\ attempt = 0
    /\ requests = 0
    /\ requests2 = 0
    /\ delays = 0
    /\ json_data = None
    /\ payloadStatus = "none"
    /\ turnover_data = None
    /\ filtered_data = Unbound
    /\ obtainedAt = 0
    /\ brokeAt = 0
    /\ normalized = FALSE
    /\ ioFailed = FALSE
    /\ rawFile = Absent
    /\ canonFile = Absent
    /\ summaryFile = Absent
    /\ diagFiles = {}
    /\ outcome = "running"
    /\ retval = NoValue

UnitInit == RunIdle /\ UnitIdle /\ RerunIdle /\ PoolIdle

\* board-meeting entries as upstream sends them: mappings of strings, with
\* bm_symbol and sm_name each present, empty or absent
BoardEntries ==
    {Obj(f) : f \in
        {"bm_purpose" :> "Results"} \cup
        {"bm_symbol" :> s @@ "bm_purpose" :> "Results" : s \in {"SYM", ""}} \cup
        {"sm_name" :> n @@ "bm_purpose" :> "Results" : n \in {"NAME", ""}} \cup
        {"bm_symbol" :> s @@ "sm_name" :> n : s \in {"SYM", ""}, n \in {"NAME", ""}}}

\* filter_board_meetings(data) on a list of mappings
CallFilterBoardMeetings ==
    /\ unitCall.fn = "none"
    /\ \E items \in SeqsUpTo(BoardEntries, MaxUnitLen) :
        /\ unitCall' = [fn |-> "filter_board_meetings", arg |-> JList(items)]
        /\ unitResult' = [fn |-> "filter_board_meetings",
                          run |-> filter_board_meetings_run(JList(items))]
    /\ UNCHANGED <<runVars, rerunVars, poolVars>>

\* feeds whose normalizer takes the decoded JSON payload
JsonFeeds == DirectFeeds \cup InPageFeeds

\* filter_<feed>(payload) on any payload upstream may send
CallNormalizer ==
    /\ unitCall.fn = "none"
    /\ \E f \in JsonFeeds : \E j \in JsonBodies(f) :
        /\ unitCall' = [fn |-> "normalizer", feed |-> f, arg |-> j]
        /\ unitResult' = [fn |-> "normalizer", out |-> Filter(f, j)]
    /\ UNCHANGED <<runVars, rerunVars, poolVars>>

\* feeds whose summary writer takes a list of canonical records
ListSummaryFeeds == JsonFeeds \cup FormFeeds \cup {"analyst"}

\* the payloads of a feed, for the lists its normalizer can produce
PayloadsOf(f) ==
    CASE f = "bse_notices" -> BsePages
      [] f = "analyst" -> AnalystPages
      [] OTHER -> JsonBodies(f)

\* save_text_summary(data, filename, from_date, to_date); open() or a write may
\* fail, which the function catches and logs
CallSaveTextSummary ==
    /\ unitCall.fn = "none"
    /\ \E f \in ListSummaryFeeds : \E j \in PayloadsOf(f), io \in BOOLEAN :
        /\ unitCall' = [fn |-> "save_text_summary", feed |-> f, arg |-> Filter(f, j)]
        /\ unitResult' = [fn |-> "save_text_summary", raised |-> FALSE,
                          file |-> IF io THEN File(Summary(f, Filter(f, j))) ELSE Absent]
    /\ UNCHANGED <<runVars, rerunVars, poolVars>>

\* rows of a results page: a notice row with a relative link, one without a
\* link, a pager row of six cells, a row of three cells, and a notice row
\* whose <a> has no href
UnitRows ==
    {Row({}, <<"N1", "", "Equity", "Trading", "Ops", "">>, Link("/n.pdf", "Subject"), "pdf1"),
     Row({}, <<"N2", "", "Debt", "Company", "Listing", "", "x">>, NoLink, ""),
     Row({"pgr"}, <<"1", "2", "3", "4", "5", "6">>, LinkNoHref("2"), ""),
     Row({}, <<"N3", "", "Equity">>, Link("/m.pdf", "Short"), "pdf3"),
     Row({}, <<"N4", "", "Equity", "Trading", "Ops", "">>, LinkNoHref("Anchor"), "pdf4")}

\* parse_notices(html_content)
CallParseNotices ==
    /\ unitCall.fn = "none"
    /\ \E tbl \in BOOLEAN, rows \in SeqsUpTo(UnitRows, MaxRows) :
        /\ unitCall' = [fn |-> "parse_notices", arg |-> Html(tbl, rows)]
        /\ unitResult' = [fn |-> "parse_notices", out |-> parse_notices(Html(tbl, rows))]
    /\ UNCHANGED <<runVars, rerunVars, poolVars>>
\* the parts press-release dates are put together from: the text upstream
\* sends, whether it is valid, and the two digits it stands for
UnitDays ==
    {[text |-> <<"6">>, n |-> 6, out |-> <<"0", "6">>],
     [text |-> <<"3", "1">>, n |-> 31, out |-> <<"3", "1">>]}
UnitMonths ==
    {[text |-> <<"A", "p", "r">>, days |-> 30, out |-> <<"0", "4">>],
     [text |-> <<"a", "p", "r">>, days |-> 30, out |-> <<"0", "4">>],
     [text |-> <<"X", "y", "z">>, days |-> 0, out |-> <<>>]}
UnitClocks ==
    {[text |-> <<>>, ok |-> TRUE],
     [text |-> <<" ", "1", "0", ":", "3", "0", ":", "0", "0">>, ok |-> TRUE],
     [text |-> <<" ", "2", "5", ":", "0", "0", ":", "0", "0">>, ok |-> FALSE]}
UnitYear == <<"2", "0", "2", "5">>
UnitDateParts == [day : UnitDays, mon : UnitMonths, clock : UnitClocks]

\* the date string made of the parts
DateText(p) == p.day.text \o <<"-">> \o p.mon.text \o <<"-">> \o UnitYear \o p.clock.text

\* strings in no day-month-year form
FreeTexts == {<<"2", "0", "2", "5", "-", "0", "4", "-", "1", "6">>}

\* press-release entries: one per date string, and one without a date
PressEntries ==
    {Obj("title" :> <<"T">> @@ "date" :> d) :
        d \in {DateText(p) : p \in UnitDateParts} \cup FreeTexts}
        \cup {Obj("title" :> <<"T">> @@ "category" :> <<"I", "P", "O">>)}

\* the structuring step of fetch_press_release_data on a list of entries
CallFetchPressReleaseData ==
    /\ unitCall.fn = "none"
    /\ \E items \in SeqsUpTo(PressEntries, MaxUnitLen) :
        /\ unitCall' = [fn |-> "fetch_press_release_data", arg |-> JList(items)]
        /\ unitResult' = [fn |-> "fetch_press_release_data",
                          raised |-> StructureRaises(JList(items)),
                          out |-> StructuredData(JList(items))]
    /\ UNCHANGED <<runVars, rerunVars, poolVars>>

\* well-formed block-deal entries: all seven source keys, each with its own value
BlockDealEntries ==
    {Obj("BD_SYMBOL" :> "SYM1" @@ "BD_SCRIP_NAME" :> "NAME1" @@ "BD_CLIENT_NAME" :> "CLIENT1"
            @@ "BD_BUY_SELL" :> "BUY" @@ "BD_QTY_TRD" :> "100" @@ "BD_TP_WATP" :> "10.5"
            @@ "mTIMESTAMP" :> "16-Apr-2025"),
     Obj("BD_SYMBOL" :> "SYM2" @@ "BD_SCRIP_NAME" :> "NAME2" @@ "BD_CLIENT_NAME" :> "CLIENT2"
            @@ "BD_BUY_SELL" :> "SELL" @@ "BD_QTY_TRD" :> "250" @@ "BD_TP_WATP" :> "99"
            @@ "mTIMESTAMP" :> "15-Apr-2025" @@ "date" :> "other")}

\* filter_block_deals(payload) followed by save_text_summary(filtered, ...)
CallBlockDealsSummary ==
    /\ unitCall.fn = "none"
    /\ \E items \in SeqsUpTo(BlockDealEntries, MaxUnitLen) :
        /\ unitCall' = [fn |-> "block_deals_summary", arg |-> JDict(items)]
        /\ unitResult' = [fn |-> "block_deals_summary",
                          out |-> save_text_summary_block_deals(
                                      filter_block_deals(JDict(items)))]
    /\ UNCHANGED <<runVars, rerunVars, poolVars>>

\* item.get('content', {}) of press_release.py
ContentOf(item) ==
    IF "content" \in DOMAIN item.f THEN item.f["content"] ELSE Obj([k \in {} |-> <<>>])

\* the record simplify_press_release appends for an entry; body, attachment_url
\* and category are left out: they take no part in the count or the order
SimplifiedRecord(item) ==
    [title |-> GetOr(ContentOf(item), "title", <<>>),
     date |-> GetOr(ContentOf(item), "field_date", <<>>)]

\* the sort key: datetime.strptime(x['date'], '%d-%b-%Y'), as a number that
\* orders like the datetime
DateOrdinal(cs) ==
    LET d == DatePrefix(cs) IN d.y * 10000 + d.m * 100 + d.d

\* sorted(..., reverse=True) is stable: x goes after the records whose date
\* is not earlier than its own
RECURSIVE InsertByDateDesc(_, _)
InsertByDateDesc(x, sorted) ==
    IF sorted = <<>> THEN <<x>>
    ELSE IF DateOrdinal(x.date) > DateOrdinal(Head(sorted).date) THEN <<x>> \o sorted
    ELSE <<Head(sorted)>> \o InsertByDateDesc(x, Tail(sorted))

RECURSIVE SortByDateDesc(_)
SortByDateDesc(items) ==
    IF items = <<>> THEN <<>>
    ELSE InsertByDateDesc(items[Len(items)],
                          SortByDateDesc(SubSeq(items, 1, Len(items) - 1)))

\* press_release.py 24-50: strptime raises ValueError on a date that is not
\* %d-%b-%Y, and the except clause returns []
simplify_press_release(data) ==
    LET simplified == [i \in 1..Len(data) |-> SimplifiedRecord(data[i])]
    IN  IF \E i \in 1..Len(simplified) : ~ParsesDateOnly(simplified[i].date)
        THEN <<>>
        ELSE SortByDateDesc(simplified)

\* entries of the press-release endpoint: two titles, three dates, a date in
\* no such form, and no field_date
SimplifyEntries ==
    {Obj("content" :> Obj("title" :> t @@ "field_date" :> d)) :
        t \in {<<"A">>, <<"B">>},
        d \in {<<"1", "6", "-", "A", "p", "r", "-", "2", "0", "2", "5">>,
               <<"6", "-", "A", "p", "r", "-", "2", "0", "2", "5">>,
               <<"T", "B", "A">>}}
        \cup {Obj("content" :> Obj("title" :> <<"C">>))}

CallSimplifyPressRelease ==
    /\ unitCall.fn = "none"
    /\ \E items \in SeqsUpTo(SimplifyEntries, MaxUnitLen) :
        /\ unitCall' = [fn |-> "simplify_press_release", arg |-> items]
        /\ unitResult' = [fn |-> "simplify_press_release",
                          out |-> simplify_press_release(items)]
    /\ UNCHANGED <<runVars, rerunVars, poolVars>>

\* rows handed to filter_analyst_recommendations: those of the run model and
\* a row of three cells
AnalystUnitRows ==
    AnalystRows \cup {Row({}, <<"TCS", "Tata Consultancy", "2025-04-16">>, NoLink, "")}

\* filter_analyst_recommendations(html_content, today)
CallFilterAnalystRecommendations ==
    /\ unitCall.fn = "none"
    /\ \E rows \in SeqsUpTo(AnalystUnitRows, MaxUnitLen) :
        /\ unitCall' = [fn |-> "filter_analyst_recommendations", arg |-> Html(TRUE, rows)]
        /\ unitResult' = [fn |-> "filter_analyst_recommendations",
                          out |-> filter_analyst_recommendations(Html(TRUE, rows))]
    /\ UNCHANGED <<runVars, rerunVars, poolVars>>

\* board-meeting entries that can be told apart: two valid ones and one
\* without its company name
OrderedBoardEntries ==
    {Obj("bm_symbol" :> "SYM1" @@ "sm_name" :> "NAME1" @@ "bm_date" :> "16-Apr-2025"),
     Obj("bm_symbol" :> "SYM2" @@ "sm_name" :> "NAME2" @@ "bm_date" :> "15-Apr-2025"),
     Obj("bm_symbol" :> "SYM3" @@ "bm_date" :> "14-Apr-2025")}

\* feeds with no sort between normalizer and summary, and their payloads
UnsortedFeeds == {"board_meeting", "bse_notices"}
OrderedPayloads(f) ==
    IF f = "bse_notices"
    THEN {Html(TRUE, rows) : rows \in SeqsUpTo(UnitRows, MaxRows)}
    ELSE {JList(items) : items \in SeqsUpTo(OrderedBoardEntries, MaxUnitLen)}

\* the normalizer of the feed, then save_text_summary on what it returned
CallFilterThenSummary ==
    /\ unitCall.fn = "none"
    /\ \E f \in UnsortedFeeds : \E j \in OrderedPayloads(f) :
        /\ unitCall' = [fn |-> "filter_then_summary", feed |-> f, arg |-> j]
        /\ unitResult' = [fn |-> "filter_then_summary",
                          out |-> Filter(f, j),
                          summary |-> Summary(f, Filter(f, j))]
    /\ UNCHANGED <<runVars, rerunVars, poolVars>>

\* press-release entries of two days in different months, with two titles
DatedPressEntries ==
    {Obj("title" :> t @@ "date" :> d) :
        t \in {<<"A">>, <<"B">>},
        d \in {<<"3", "1", "-", "M", "a", "r", "-", "2", "0", "2", "5">>,
               <<"6", "-", "A", "p", "r", "-", "2", "0", "2", "5">>}}

\* the structuring step of fetch_press_release_data on dated entries
CallStructureDatedEntries ==
    /\ unitCall.fn = "none"
    /\ \E items \in SeqsUpTo(DatedPressEntries, MaxUnitLen) :
        /\ unitCall' = [fn |-> "structure_dated_entries", arg |-> JList(items)]
        /\ unitResult' = [fn |-> "structure_dated_entries",
                          raised |-> StructureRaises(JList(items)),
                          out |-> StructuredData(JList(items))]
    /\ UNCHANGED <<runVars, rerunVars, poolVars>>

\* files_to_attach built without asking whether the file exists
FilesToAttachAlways(file) == <<file>>

\* files_to_attach: the summary file when os.path.exists(summary_filename)
FilesToAttach(file) == IF file.exists THEN <<file>> ELSE <<>>

\* the parts attached by the loop: open(file_path, 'rb') and f.read() inside
\* try/except, which logs a failure and goes on
AttachedParts(files, readOk) ==
    IF files # <<>> /\ files[1].exists /\ readOk THEN <<files[1].c>> ELSE <<>>

\* send_email(summary_filename, date_str) of block_deals.py (147-201); the
\* one of board_meeting.py (179-225) differs in its log lines.  user and pass
\* say whether EMAIL_USER and EMAIL_PASS are set, smtpOk whether login and
\* sendmail went through.  os.path.exists(None) raises TypeError.
send_email(path, file, date_str, user, pass, readOk, smtpOk) ==
    IF ~user \/ ~pass
    THEN [raised |-> FALSE, configured |-> FALSE, subject |-> "", attached |-> <<>>,
          warned |-> FALSE, sent |-> FALSE, reported |-> "not configured"]
    ELSE IF path = "none"
    THEN [raised |-> TRUE, configured |-> TRUE, subject |-> date_str, attached |-> <<>>,
          warned |-> FALSE, sent |-> FALSE, reported |-> "TypeError"]
    ELSE LET files == FilesToAttach(file)
         IN  [raised |-> FALSE, configured |-> TRUE, subject |-> date_str,
              attached |-> AttachedParts(files, readOk),
              warned |-> files = <<>>,
              sent |-> smtpOk,
              reported |-> IF ~smtpOk THEN "sending failed"
                           ELSE IF files # <<>> THEN "with attachments"
                           ELSE "without attachments"]

\* the dates a run may hand over
DateStrings == {"2025-04-16", "2025-04-15"}

\* what may be on disk at the summary path when send_email is called
SummaryOnDisk ==
    {Absent, File(save_text_summary_block_deals(<<>>)),
     File(save_text_summary_board_meeting(<<>>))}

CallSendEmail ==
    /\ unitCall.fn = "none"
    /\ \E path \in {"none", "summary_filename"}, file \in SummaryOnDisk,
          d \in DateStrings, user \in BOOLEAN, pass \in BOOLEAN,
          readOk \in BOOLEAN, smtpOk \in BOOLEAN :
        /\ path = "none" => file = Absent
        /\ unitCall' = [fn |-> "send_email", path |-> path, file |-> file, date |-> d,
                        user |-> user, pass |-> pass]
        /\ unitResult' = [fn |-> "send_email"]
                            @@ send_email(path, file, d, user, pass, readOk, smtpOk)
    /\ UNCHANGED <<runVars, rerunVars, poolVars>>

UnitNext ==
    \/ CallSendEmail
    \/ CallStructureDatedEntries
    \/ CallFilterThenSummary
    \/ CallFilterAnalystRecommendations
    \/ CallSimplifyPressRelease
    \/ CallBlockDealsSummary
    \/ CallFilterBoardMeetings
    \/ CallNormalizer
    \/ CallSaveTextSummary
    \/ CallParseNotices
    \/ CallFetchPressReleaseData

UnitSpec == UnitInit /\ [][UnitNext]_vars

\* ------------------------------------------------------- runs side by side
\* A fourth specification lets a pool of two workers execute run functions of
\* different feeds at the same time, in one working directory, while the
\* calendar day may change.  A run is reduced to what it shares with other
\* runs: the dates it builds when it starts and the paths it opens for writing.
PoolFeeds ==
    {"press_release", "mobil_tric", "block_deals", "board_meeting", "announcement",
     "bse_notices"}

Date(d, m, y) == [d |-> d, m |-> m, y |-> y]

\* the days datetime.today() answers with
ClockDays ==
    {Date(15, 4, 2025), Date(16, 4, 2025), Date(17, 4, 2025), Date(30, 4, 2025),
     Date(1, 5, 2025)}

\* a number that orders like the date
DayNumber(p) == p.y * 10000 + p.m * 100 + p.d

\* today - timedelta(days=1)
OneDayAgo(p) ==
    IF p.d > 1 THEN Date(p.d - 1, p.m, p.y)
    ELSE IF p.m > 1 THEN Date(DaysIn(p.m - 1, p.y), p.m - 1, p.y)
    ELSE Date(31, 12, p.y - 1)

\* the day after p
Tomorrow(p) ==
    IF p.d < DaysIn(p.m, p.y) THEN Date(p.d + 1, p.m, p.y)
    ELSE IF p.m < 12 THEN Date(1, p.m + 1, p.y)
    ELSE Date(1, 1, p.y + 1)

\* today = datetime.today(), except in mobil_tric.py (line 73):
\* today = datetime(2025, 4, 16)
TodayOf(f, now) == IF f = "mobil_tric" THEN Date(16, 4, 2025) ELSE now

\* from_date: one_day_ago in press_release.py, mobil_tric.py, block_deals.py
\* and board_meeting.py, today in announcement.py and bse_notices.py
FromDateOf(f, today) ==
    IF f \in {"announcement", "bse_notices"} THEN today ELSE OneDayAgo(today)

\* to_date = today.strftime("%d-%m-%Y") is kept as the date it formats
ToDateOf(f, today) == today

\* a path: the literal text before its variable part, the variable part (the
\* formatted date, the attempt number or both) and the literal text after it
Path(stem, key, tail) == [stem |-> stem, key |-> key, tail |-> tail]

\* f"..._attempt_{attempt + 1}..."
AttemptKeys == {<<DigitChar(k)>> : k \in 1..MaxAttempts}

\* every path the run function of feed f opens for writing, to being its to_date
PathsOf(f, to) ==
    LET D == FormatDMY(to)
    IN  IF f = "press_release"
        THEN {Path("press_release_", D, ".json"),
              Path("press_release_", D, "_simplified.json"),
              Path("press_release_", D, "_summary.txt")}
             \cup {Path("raw_response_attempt_", K, ".txt") : K \in AttemptKeys}
        ELSE IF f = "mobil_tric"
        THEN {Path("ipo_data_screenshot.png", <<>>, ""),
              Path("press_release_", D, ".json")}
        ELSE IF f = "block_deals"
        THEN {Path("block_deals_", D, ".json"),
              Path("block_deals_", D, "_summary.txt")}
             \cup {Path("block_deals_raw_response_attempt_", K, ".txt") : K \in AttemptKeys}
        ELSE IF f = "board_meeting"
        THEN {Path("board_meetings_raw_", D, ".json"),
              Path("board_meetings_", D, ".json"),
              Path("board_meetings_", D, "_summary.txt")}
             \cup {Path("board_meetings_raw_response_attempt_", K \o <<"_">> \o D, ".html")
                      : K \in AttemptKeys}
        ELSE IF f = "announcement"
        THEN {Path("nse_announcements_", D, ".json"),
              Path("nse_announcements_", D, "_summary.txt"),
              Path("nse_announcements_raw_", D, ".html")}
        ELSE {Path("bse_notices_", D, ".json"),
              Path("bse_notices_", D, "_summary.txt"),
              Path("bse_notices_raw_", D, ".html")}

\* no run anywhere but in the pool
PoolInit ==
    /\ RunIdle
    /\ UnitIdle
    /\ RerunIdle
    /\ clock \in {Date(15, 4, 2025), Date(30, 4, 2025)}
    /\ pool = [w \in Workers |-> NoRun]
    /\ written = {}

\* a free worker takes a request for a feed no other worker is running; the
\* run function builds its dates and file names in its first lines
PoolStart(w) ==
    /\ pool[w] = NoRun
    /\ \E f \in PoolFeeds :
        /\ \A v \in Workers : pool[v].feed # f
        /\ LET today == TodayOf(f, clock)
           IN  pool' = [pool EXCEPT ![w] =
                           [feed |-> f, started |-> clock,
                            from_date |-> FromDateOf(f, today),
                            to_date |-> ToDateOf(f, today)]]
    /\ UNCHANGED <<clock, written, runVars, unitVars, rerunVars>>

\* with open(path, 'w') in a running function: any of its paths, since which
\* of them a run writes depends on what the site answers
PoolWrite(w) ==
    /\ pool[w] # NoRun
    /\ \E path \in PathsOf(pool[w].feed, pool[w].to_date) :
        /\ <<w, path>> \notin written
        /\ written' = written \cup {<<w, path>>}
    /\ UNCHANGED <<clock, pool, runVars, unitVars, rerunVars>>

\* the run function returns
PoolFinish(w) ==
    /\ pool[w] # NoRun
    /\ pool' = [pool EXCEPT ![w] = NoRun]
    /\ written' = {x \in written : x[1] # w}
    /\ UNCHANGED <<clock, runVars, unitVars, rerunVars>>

\* midnight passes
Midnight ==
    /\ Tomorrow(clock) \in ClockDays
    /\ clock' = Tomorrow(clock)
    /\ UNCHANGED <<pool, written, runVars, unitVars, rerunVars>>

PoolNext ==
    \/ \E w \in Workers : PoolStart(w)
    \/ \E w \in Workers : PoolWrite(w)
    \/ \E w \in Workers : PoolFinish(w)
    \/ Midnight

PoolSpec == PoolInit /\ [][PoolNext]_vars

\* ------------------------------------------------------- properties of runs
\* feeds whose run function fetches inside `for attempt in range(3)`
RetryFeeds == DirectFeeds \cup InPageFeeds \cup FormFeeds

\* the loop ran to exhaustion: three requests and no break
Exhausted == requests = MaxAttempts /\ brokeAt = 0

\* what a caller can tell apart from a successful result
FailureValue(v) == v = NoneNone \/ (v.kind = "pair" /\ v.data = <<>>)

\* C1: the fetch loop issues the data request at most three times in a run,
\* and once an attempt has obtained a payload no further attempt is issued.
C1_BoundedAttempts ==
    /\ requests <= MaxAttempts
    /\ obtainedAt > 0 => requests = obtainedAt

\* C2: a run that launched a browser and has left the run function has called
\* browser.close, whatever the exit path was.
C2_BrowserClosedOnExit ==
    (pc = "done" /\ browser # "none") => closeCalls >= 1

\* C3: when all three attempts failed, the run function returns a failure
\* value; it never leaves by an uncaught exception.
C3_ExhaustionReturnsFailure ==
    (pc = "done" /\ feed \in RetryFeeds /\ Exhausted)
        => (outcome = "returned" /\ FailureValue(retval))

\* C4: every run eventually reaches a terminal state (returned or raised),
\* given that each network call returns or times out.
C4_RunTerminates == <>(pc = "done")

\* a run that spent all three attempts of its loop and is over
C4_Witness == pc = "done" /\ Exhausted /\ delays = LastRetry

\* C5: a run that obtained a payload and reached normalization has written
\* the raw, the canonical and the summary artifact when it ends, also when
\* the canonical list is empty (write errors set aside).
C5_AllThreeArtifacts ==
    (pc = "done" /\ outcome = "returned" /\ obtainedAt > 0 /\ normalized /\ ~ioFailed)
        => (rawFile.exists /\ canonFile.exists /\ summaryFile.exists)

\* ------------------------------------------------- properties of the helpers
\* C6: save_text_summary on an empty canonical list writes the feed's no-data
\* sentence right after the header and the rule, and does not raise.
C6_EmptySummaryHasNoDataSentence ==
    (unitCall.fn = "save_text_summary" /\ unitCall.arg = <<>> /\ unitResult.file.exists)
        => /\ ~unitResult.raised
           /\ Len(unitResult.file.c) = 3
           /\ unitResult.file.c[1].label = "header"
           /\ unitResult.file.c[2].label = "rule"
           /\ unitResult.file.c[3].label = "nodata"

\* the entry has a non-empty bm_symbol and a non-empty sm_name
HasSymbolAndName(item) ==
    /\ "bm_symbol" \in DOMAIN item.f /\ item.f["bm_symbol"] # ""
    /\ "sm_name" \in DOMAIN item.f /\ item.f["sm_name"] # ""

\* the positions of xs in increasing order
RECURSIVE Ascending(_)
Ascending(xs) ==
    IF xs = {} THEN <<>>
    ELSE LET m == CHOOSE x \in xs : \A y \in xs : x <= y
         IN  <<m>> \o Ascending(xs \ {m})

\* C7: filter_board_meetings returns, in source order, exactly the entries
\* whose bm_symbol and sm_name are both non-empty, and logs one drop for each
\* entry it excludes.
C7_MandatoryFieldsFilter ==
    unitCall.fn = "filter_board_meetings" =>
        LET items == unitCall.arg.v
            kept == Ascending({i \in 1..Len(items) : HasSymbolAndName(items[i])})
        IN  /\ Len(unitResult.run.out) = Len(kept)
            /\ \A k \in 1..Len(kept) :
                /\ unitResult.run.out[k].symbol = items[kept[k]].f["bm_symbol"]
                /\ unitResult.run.out[k].companyName = items[kept[k]].f["sm_name"]
                /\ unitResult.run.out[k].purpose = Get(items[kept[k]], "bm_purpose")
            /\ unitResult.run.warnings = Len(items) - Len(kept)
            /\ ~unitResult.run.raised

\* a call on two entries of which one is kept and one dropped
C7_Witness ==
    /\ unitCall.fn = "filter_board_meetings"
    /\ Len(unitCall.arg.v) = 2
    /\ Len(unitResult.run.out) = 1
    /\ unitResult.run.warnings = 1
    /\ ~HasSymbolAndName(unitCall.arg.v[1])

\* the field that identifies the company in a feed's canonical record
CompanyOf(f, rec) ==
    IF f \in {"event_calendar", "insider_trading"} THEN rec.company ELSE rec.companyName

\* C8: no normalizer emits a canonical record whose symbol or company
\* identifier is the empty string.
C8_MandatoryFieldsNonEmpty ==
    unitCall.fn = "normalizer" =>
        \A i \in 1..Len(unitResult.out) :
            /\ unitResult.out[i].symbol # ""
            /\ CompanyOf(unitCall.feed, unitResult.out[i]) # ""

\* the DD-MM-YYYY a valid date of the parts stands for
ExpectedDMY(p) == p.day.out \o <<"-">> \o p.mon.out \o <<"-">> \o UnitYear

\* the parts make a calendar date, with or without a valid time of day
ValidParts(p) == p.mon.days > 0 /\ p.day.n <= p.mon.days /\ p.clock.ok

\* the key a date string is to be filed under
ExpectedDate(text) ==
    IF \E p \in UnitDateParts : DateText(p) = text /\ ValidParts(p)
    THEN ExpectedDMY(CHOOSE p \in UnitDateParts : DateText(p) = text /\ ValidParts(p))
    ELSE text

ExpectedKey(entry) ==
    IF "date" \in DOMAIN entry.f THEN ExpectedDate(entry.f["date"]) ELSE UnknownDate

\* C9: a date with time and a date without time are both filed under their
\* DD-MM-YYYY, any other string under itself, and every entry's record is
\* emitted under its key.
C9_DateNormalization ==
    unitCall.fn = "fetch_press_release_data" =>
        /\ ~unitResult.raised
        /\ \A i \in 1..Len(unitCall.arg.v) :
            \E g \in 1..Len(unitResult.out) :
                /\ unitResult.out[g].date = ExpectedKey(unitCall.arg.v[i])
                /\ \E k \in 1..Len(unitResult.out[g].items) :
                    unitResult.out[g].items[k] = PressRelease(unitCall.arg.v[i])
        /\ \A g \in 1..Len(unitResult.out) :
            \E i \in 1..Len(unitCall.arg.v) :
                unitResult.out[g].date = ExpectedKey(unitCall.arg.v[i])

\* a date with time and the same date without time, filed under one key
C9_Witness ==
    /\ unitCall.fn = "fetch_press_release_data"
    /\ Len(unitCall.arg.v) = 2
    /\ "date" \in DOMAIN unitCall.arg.v[1].f
    /\ "date" \in DOMAIN unitCall.arg.v[2].f
    /\ Len(unitCall.arg.v[1].f["date"]) = 19
    /\ Len(unitCall.arg.v[2].f["date"]) = 10
    /\ Len(unitResult.out) = 1
    /\ unitResult.out[1].date = <<"0", "6", "-", "0", "4", "-", "2", "0", "2", "5">>
    /\ Len(unitResult.out[1].items) = 2

\* the rows parse_notices is to leave out: the first row, pager rows, rows
\* of fewer than six cells
Excluded(rows, i) == i = 1 \/ "pgr" \in rows[i].cls \/ Len(rows[i].cells) < MinCols

\* the page without the rows to leave out, the header row aside
Remaining(page) ==
    LET keep == Ascending({i \in 1..Len(page.rows) : i = 1 \/ ~Excluded(page.rows, i)})
    IN  Html(page.table, [k \in 1..Len(keep) |-> page.rows[keep[k]]])

\* C10: parse_notices returns no record of the header row, of a pager row or
\* of a row of fewer than six cells, and returns what it returns for the page
\* without those rows: they neither raise nor change the other records.
C10_RowsExcluded ==
    unitCall.fn = "parse_notices" =>
        LET rows == unitCall.arg.rows
            kept == Ascending({i \in 1..Len(rows) : ~Excluded(rows, i)})
        IN  /\ unitResult.out = parse_notices(Remaining(unitCall.arg))
            /\ Len(unitResult.out) \in {0, Len(kept)}
            /\ \A k \in 1..Len(unitResult.out) :
                unitResult.out[k].noticeNo = rows[kept[k]].cells[1]
            /\ (unitCall.arg.table /\ \A k \in 1..Len(kept) : rows[kept[k]].link.hasHref)
                    => Len(unitResult.out) = Len(kept)

\* a page with a header row of data cells, a pager row holding an <a> without
\* href, and a notice row, of which only the notice row yields a record
C10_Witness ==
    /\ unitCall.fn = "parse_notices"
    /\ unitCall.arg.table
    /\ Len(unitCall.arg.rows) = 3
    /\ Len(unitCall.arg.rows[1].cells) >= MinCols
    /\ "pgr" \in unitCall.arg.rows[2].cls
    /\ Len(unitResult.out) = 1

\* ------------------------------------------------ more properties of runs
\* the payload is a JSON array of one entry that has no sm_name
OneEntryWithoutName(j) ==
    j.t = "list" /\ Len(j.v) = 1 /\ j.v[1].t = "obj" /\ "sm_name" \notin DOMAIN j.v[1].f

\* C11: a board-meetings run whose payload is an array with one entry missing
\* sm_name ends with an empty canonical list, no canonical file, and (write
\* errors aside) a summary made of the header, its rule and the sentence
\* "No valid board meetings found for the specified date range."
C11_OneEntryMissingName ==
    (pc = "done" /\ feed = "board_meeting" /\ brokeAt > 0 /\ OneEntryWithoutName(json_data))
        => /\ retval = Pair(<<>>)
           /\ ~canonFile.exists
           /\ summaryFile.exists =>
                summaryFile.c =
                    <<Header("NSE Board Meetings Summary"), Rule,
                      NoData("No valid board meetings found for the specified date range.")>>
           /\ ~ioFailed => summaryFile.exists

\* such a run, over, with its summary on disk
C11_Witness ==
    /\ pc = "done"
    /\ feed = "board_meeting"
    /\ OneEntryWithoutName(json_data)
    /\ normalized
    /\ summaryFile.exists
    /\ rawFile.exists

\* the seven labelled lines of a block-deal record block and the source
\* key each is populated from
BlockDealFields ==
    <<<<"Symbol", "BD_SYMBOL">>, <<"Company", "BD_SCRIP_NAME">>,
      <<"Client", "BD_CLIENT_NAME">>, <<"Transaction Type", "BD_BUY_SELL">>,
      <<"Quantity", "BD_QTY_TRD">>, <<"Price", "BD_TP_WATP">>, <<"Date", "mTIMESTAMP">>>>

\* C12: the summary of a block-deals payload of n well-formed entries holds,
\* after the header and the rule, exactly n record blocks in source order,
\* each made of the seven labelled lines Symbol, Company, Client, Transaction
\* Type, Quantity, Price, Date with the values of the entry's source keys,
\* closed by a rule.
C12_OneBlockPerEntry ==
    unitCall.fn = "block_deals_summary" =>
        LET items == unitCall.arg.v
            lines == unitResult.out
            n == Len(items)
        IN  /\ Len(lines) = 2 + 8 * n
            /\ Cardinality({i \in 1..Len(lines) : lines[i].label = "Symbol"}) = n
            /\ \A k \in 1..n :
                /\ \A j \in 1..7 :
                    /\ lines[2 + 8 * (k - 1) + j].label = BlockDealFields[j][1]
                    /\ lines[2 + 8 * (k - 1) + j].value = items[k].f[BlockDealFields[j][2]]
                /\ lines[2 + 8 * k].label = "rule"

\* a payload of one entry and its summary of one block
C12_Witness ==
    /\ unitCall.fn = "block_deals_summary"
    /\ Len(unitCall.arg.v) = 1
    /\ Len(unitResult.out) = 10
    /\ unitResult.out[9].label = "Date"
    /\ unitResult.out[9].value = "15-Apr-2025"

\* ------------------------------------------------------ properties of reruns
\* the records the current run normalized its payload to
CurrentRecords == IF filtered_data.bound THEN filtered_data.v ELSE <<>>

\* C13: a run on the same payload as the run before it, for the same date,
\* leaves the canonical and the summary file with the content they had after
\* that run (neither run meeting a write error).
C13_SecondRunSameArtifacts ==
    (pc = "close" /\ runNo >= 2 /\ json_data = prevPayload /\ ~ioFailed /\ ~prevDisk.ioFailed)
        => (canonFile = prevDisk.canon /\ summaryFile = prevDisk.summary)

\* a second run on the same payload of one valid entry, both files written
C13_Witness ==
    /\ pc = "close"
    /\ runNo = 2
    /\ feed = "board_meeting"
    /\ json_data = prevPayload
    /\ Len(CurrentRecords) = 1
    /\ ~ioFailed
    /\ prevDisk.canon.exists
    /\ prevDisk.summary.exists
    /\ canonFile = prevDisk.canon

\* C14: after a later run, the canonical and the summary file on disk are
\* those of that run alone: none written by an earlier run is left when the
\* later run's payload yields other records, or none (write errors aside).
C14_LastRunAlone ==
    (pc = "close" /\ runNo >= 2 /\ ~ioFailed)
        => /\ summaryFile.exists => summaryFile.c = Summary(feed, CurrentRecords)
           /\ canonFile.exists => canonFile.c = CurrentRecords

\* ------------------------------------------------ properties of the failures
\* C15: when every fetch attempt of a block_deals or board_meeting run has
\* failed, whatever the failures were, a diagnostic file of the raw response
\* or page content is on disk after the run.
C15_DiagnosticOnExhaustion ==
    (pc = "done" /\ feed \in {"block_deals", "board_meeting"} /\ Exhausted)
        => diagFiles # {}

\* the feeds whose bootstrap the three cited run functions show
LandingFeeds == {"board_meeting", "block_deals", "announcement"}

\* C16: after a timeout of the landing-page load, the fetch stage still has
\* its full budget: a loop that ended without a payload issued all three data
\* requests.
C16_TimeoutKeepsBudget ==
    (feed \in LandingFeeds /\ bootstrap \in {"degraded", "timed_out"}
        /\ pc = "persist" /\ brokeAt = 0)
        => requests = MaxAttempts

\* C17: a landing-page load that failed, by a timeout or by any other error,
\* does not make the run function of board_meeting or mobil_tric raise: the
\* bootstrap ends as success or as degraded.
C17_BootstrapNeverRaises ==
    (feed \in {"board_meeting", "mobil_tric"} /\ pc = "done")
        => ~(bootstrap = "error" /\ outcome = "raised")

\* the loop ran all its iterations and none of them reached the break
FetchFailed == attempt = MaxAttempts /\ brokeAt = 0

\* what a run returns that fetched an empty array at its first attempt
ZeroRecordValue(f) == IF f = "announcement" THEN PairJson(JList(<<>>)) ELSE Pair(<<>>)

\* C18: a board_meeting or announcement run whose fetch was exhausted returns
\* a value other than the one returned by a run that fetched an empty payload
\* and normalized it to zero records.
C18_FailureValueDistinct ==
    (pc = "done" /\ feed \in {"board_meeting", "announcement"}
        /\ outcome = "returned" /\ FetchFailed)
        => retval # ZeroRecordValue(feed)

\* a run that fetched an empty array and returned the zero-record value
C18_ZeroRecordRun ==
    /\ pc = "done"
    /\ feed = "board_meeting"
    /\ brokeAt = 1
    /\ json_data = JList(<<>>)
    /\ retval = ZeroRecordValue(feed)

\* ------------------------------------------------ properties of the handoff
\* C19: send_email called with the path of a summary file that is absent
\* attaches nothing and does not raise; it warns that the file was not found,
\* and what it sends carries the date it was given and no attachment.
C19_AbsentSummaryAttachesNothing ==
    (unitCall.fn = "send_email" /\ unitCall.path # "none" /\ ~unitCall.file.exists)
        => /\ ~unitResult.raised
           /\ unitResult.attached = <<>>
           /\ unitResult.configured
                => (unitResult.warned /\ unitResult.subject = unitCall.date)
           /\ unitResult.sent => unitResult.reported = "without attachments"

\* a mail sent for an absent summary file
C19_Witness ==
    /\ unitCall.fn = "send_email"
    /\ unitCall.path = "summary_filename"
    /\ ~unitCall.file.exists
    /\ unitResult.sent
    /\ unitResult.attached = <<>>
    /\ unitResult.warned

\* a payload that was fetched and holds no record: [] for board_meeting, a
\* results page whose table has no notice row for bse_notices
EmptyPayload(f, j) ==
    IF f = "bse_notices" THEN j.t = "html" /\ j.table /\ parse_notices(j) = <<>>
    ELSE j = JList(<<>>)

\* C20: the fetch stage of bse_notices or board_meeting ends failed only when
\* no attempt returned a payload, and once an attempt has returned an empty
\* payload the loop makes no further attempt.
C20_EmptyPayloadIsNotFailure ==
    feed \in {"bse_notices", "board_meeting"} =>
        /\ FetchFailed => json_data = None
        /\ EmptyPayload(feed, json_data) => pc # "fetch"

\* --------------------------------------- properties of malformed entries
\* the array of entries in a payload of the shape the feed's endpoint sends
EntriesOf(f, j) == IF f = "block_deals" THEN DataOf(j) ELSE IterOf(j)

\* the payload has the shape the feed's normalizer expects
WellShaped(f, j) == IF f = "block_deals" THEN j.t = "dict" ELSE j.t = "list"

\* an entry the normalizer of the feed keeps when it stands alone
ValidEntry(f, item) ==
    /\ item.t = "obj"
    /\ f = "board_meeting" => ~BoardMeetingSkipped(item)

\* C21: filter_board_meetings and filter_block_deals return one record for
\* every valid entry of the payload, also when another entry of the payload is
\* not a mapping.
C21_MalformedEntrySkippedAlone ==
    (unitCall.fn = "normalizer" /\ unitCall.feed \in {"board_meeting", "block_deals"}
        /\ WellShaped(unitCall.feed, unitCall.arg))
        => Len(unitResult.out)
             = Cardinality({i \in 1..Len(EntriesOf(unitCall.feed, unitCall.arg)) :
                              ValidEntry(unitCall.feed, EntriesOf(unitCall.feed, unitCall.arg)[i])})

\* C22: simplify_press_release returns one record per entry, each with the
\* entry's field_date verbatim, the dated records from the latest date to the
\* earliest and records of one date in source order; an entry without a date
\* in day-month-year form is kept too.
C22_OneRecordPerEntry ==
    unitCall.fn = "simplify_press_release" =>
        LET items == unitCall.arg
            out == unitResult.out
        IN  /\ Len(out) = Len(items)
            /\ \A i \in 1..Len(items) : \E k \in 1..Len(out) : out[k] = SimplifiedRecord(items[i])
            /\ \A k \in 1..Len(out) : \A l \in (k + 1)..Len(out) :
                (ParsesDateOnly(out[k].date) /\ ParsesDateOnly(out[l].date))
                    => DateOrdinal(out[k].date) >= DateOrdinal(out[l].date)
            /\ \A i \in 1..Len(items) : \A j \in (i + 1)..Len(items) :
                (/\ SimplifiedRecord(items[i]).date = SimplifiedRecord(items[j]).date
                 /\ items[i] # items[j])
                    => \E k \in 1..Len(out) : \E l \in (k + 1)..Len(out) :
                          out[k] = SimplifiedRecord(items[i]) /\ out[l] = SimplifiedRecord(items[j])

\* the number of cells the record of a row is read from: cols[0] to cols[5]
AnalystFieldCount == 6

HasAllAnalystCells(row) == Len(row.cells) >= AnalystFieldCount

\* C23: filter_analyst_recommendations returns what it returns for the page
\* without its rows of fewer than six cells: such rows are skipped and leave
\* the records of the other rows as they are.
C23_ShortRowsSkipped ==
    unitCall.fn = "filter_analyst_recommendations" =>
        unitResult.out
            = filter_analyst_recommendations(
                  Html(TRUE, SelectSeq(unitCall.arg.rows, HasAllAnalystCells)))

\* ------------------------------------------------- properties of the order
\* the source entries of a payload: the array elements, or the table rows
SourceEntries(f, j) == IF f = "bse_notices" THEN j.rows ELSE j.v

\* record r was made from source entry e
MadeFrom(f, r, e) ==
    IF f = "bse_notices" THEN EnoughCols(e) /\ r = Notice(e)
    ELSE r = BoardMeetingEntry(e)

\* the lines a summary block takes, and the line that opens the block
BlockLength(f) == IF f = "bse_notices" THEN Len(NoticeBlock(Notice(CHOOSE r \in UnitRows : EnoughCols(r))))
                  ELSE Len(BoardMeetingBlock(BoardMeetingEntry(Obj("bm_symbol" :> "S"))))
OpeningLine(f, r) ==
    IF f = "bse_notices" THEN Line("Notice No", r.noticeNo) ELSE Line("Symbol", r.symbol)

KeyOrdinal(key) ==
    Num(SubSeq(key, 7, 10)) * 10000 + Num(SubSeq(key, 4, 5)) * 100 + Num(SubSeq(key, 1, 2))

\* the records of all groups, one after the other
AllGrouped(groups) == Flatten([g \in 1..Len(groups) |-> groups[g].items])

\* C25: the structured press-release output holds every entry exactly once,
\* under the DD-MM-YYYY of its date; the groups go from the earliest day to
\* the latest, and the records of a group from the least title upwards.
C25_GroupsInDateOrder ==
    unitCall.fn = "structure_dated_entries" =>
        LET items == unitCall.arg.v
            out == unitResult.out
        IN  /\ Len(AllGrouped(out)) = Len(items)
            /\ \A i \in 1..Len(items) :
                \E g \in 1..Len(out) :
                    /\ out[g].date = NormalizeDate(items[i].f["date"])
                    /\ \E k \in 1..Len(out[g].items) : out[g].items[k] = PressRelease(items[i])
            /\ \A g \in 1..Len(out) : \A h \in (g + 1)..Len(out) :
                KeyOrdinal(out[g].date) < KeyOrdinal(out[h].date)
            /\ \A g \in 1..Len(out) : \A k \in 1..Len(out[g].items) :
                \A l \in (k + 1)..Len(out[g].items) :
                    ~StrLess(out[g].items[l].title, out[g].items[k].title)

\* ------------------------------------------------- properties of the loop
\* the feeds whose loop the two cited run functions show
LoopFeeds == {"block_deals", "board_meeting"}

\* C26: in a block_deals or board_meeting run the attempts come one after the
\* other with one 2-second sleep between two of them: before the next attempt
\* there were as many sleeps as attempts, and once the loop is over one fewer
\* than attempts, none after the successful and none after the third.
C26_OneDelayBetweenAttempts ==
    feed \in LoopFeeds =>
        /\ pc = "fetch" => delays = requests
        /\ (pc \in {"persist", "close", "return", "done"} /\ requests > 0)
               => delays = requests - 1

\* a run that failed once, slept once and obtained its payload at the second attempt
C26_Witness ==
    /\ feed = "block_deals"
    /\ pc = "persist"
    /\ brokeAt = 2
    /\ requests = 2
    /\ delays = 1

\* C27: a step of the fetch loop of block_deals or board_meeting never raises
\* out of the run function, and a failed attempt, whatever its kind, is
\* followed by another attempt as long as fewer than three were made.
C27_EveryFailureRetried ==
    [][(pc = "fetch" /\ feed \in LoopFeeds)
        => /\ outcome' = "running"
           /\ requests' = requests + 1
           /\ (brokeAt' = 0 /\ requests' < MaxAttempts) => pc' = "fetch"
           /\ (brokeAt' = 0 /\ requests' = MaxAttempts) => pc' = "persist"]_vars

\* a first attempt whose body was not JSON, its dump written, and a second attempt made
C27_Witness ==
    /\ feed = "block_deals"
    /\ diagFiles = {1}
    /\ requests = 2
    /\ brokeAt = 0
    /\ pc = "fetch"

\* ---------------------------------------------- properties of the payload
\* the feeds of the two transports the cited run functions show
StatusFeeds == {"block_deals", "board_meeting"}

\* C28: the payload a block_deals or board_meeting run leaves its loop with
\* is never the body of a response with a non-success status: such a response
\* is a failed attempt.
C28_NonSuccessNeverPayload ==
    (feed \in StatusFeeds /\ brokeAt > 0) => payloadStatus # "status"

\* C29: a block_deals or board_meeting run that obtained a payload and met
\* an I/O error while writing an artifact does not raise and returns the
\* records its normalizer makes of the payload.
C29_WriteErrorKeepsRecords ==
    (pc = "done" /\ feed \in LoopFeeds /\ brokeAt > 0 /\ ioFailed)
        => /\ outcome = "returned"
           /\ retval = Pair(Filter(feed, json_data))

\* the feeds whose diagnostic dumps the cited run functions show
DumpFeeds == {"block_deals", "board_meeting", "bse_notices"}

\* C30: a run whose loop ended with a usable payload and which returned has
\* written no diagnostic file.
C30_NoDumpInSuccessfulRun ==
    (pc = "done" /\ feed \in DumpFeeds /\ brokeAt > 0 /\ outcome = "returned")
        => diagFiles = {}

\* C31: two runs of different feeds that execute at the same time have written
\* no path in common.
C31_NoSharedPath ==
    \A x \in written, y \in written : x[2] = y[2] => x[1] = y[1]

\* C33: the date range of every run is the one of the day the run started on:
\* to_date is that day, from_date is that day or the day before it, and
\* from_date is not after to_date.
C33_RangeFromCurrentDate ==
    \A w \in Workers :
        pool[w] # NoRun =>
            /\ pool[w].to_date = pool[w].started
            /\ pool[w].from_date \in {pool[w].to_date, OneDayAgo(pool[w].to_date)}
            /\ DayNumber(pool[w].from_date) <= DayNumber(pool[w].to_date)

\* C32: the landing page is navigated to at most once in a run, and only
\* before the first data request; once the extraction of records from a
\* payload has started, the run does not go back to fetching.
C32_StagesInOrder ==
    [][/\ landings' <= 1
       /\ (landings' > landings => requests = 0)
       /\ (normalized => pc' # "fetch")]_vars

\* the date field of an entry is present and one of the two formats reads it
HasParsedDate(entry, key) ==
    key \in DOMAIN entry.f /\ (ParsesWithTime(entry.f[key]) \/ ParsesDateOnly(entry.f[key]))

\* the record of an entry is in the structured output, under the entry's date
FiledUnderItsDate(out, entry) ==
    \E g \in 1..Len(out) :
        /\ out[g].date = DateKey(entry)
        /\ \E k \in 1..Len(out[g].items) : out[g].items[k] = PressRelease(entry)

\* C34: the output of the press-release normalizers holds the record of an
\* entry if and only if the entry has its date field and the date parsed.
C34_RecordIffDateParsed ==
    /\ unitCall.fn = "fetch_press_release_data" =>
        \A i \in 1..Len(unitCall.arg.v) :
            FiledUnderItsDate(unitResult.out, unitCall.arg.v[i])
                <=> HasParsedDate(unitCall.arg.v[i], "date")
    /\ unitCall.fn = "simplify_press_release" =>
        \A i \in 1..Len(unitCall.arg) :
            (\E k \in 1..Len(unitResult.out) :
                unitResult.out[k] = SimplifiedRecord(unitCall.arg[i]))
                <=> HasParsedDate(ContentOf(unitCall.arg[i]), "field_date")

\* the stages of fetch_market_data that follow its two loops
AfterBothLoops == {"persist", "close", "return", "done"}

\* C35: in a market-data run each of the two loops issues at most three
\* requests and starts counting at zero, the turnover loop runs whatever the
\* index loop ended with, and once either loop has obtained a payload the run
\* writes the raw artifact (unless the write itself fails).
C35_TwoLoopsOnePersist ==
    feed = "market_data" =>
        /\ requests <= MaxAttempts /\ requests2 <= MaxAttempts
        /\ (pc = "fetch" /\ requests = 0) => attempt = 0
        /\ (pc = "fetch2" /\ requests2 = 0) => attempt = 0
        /\ (pc \in AfterBothLoops /\ requests > 0) => requests2 > 0
        /\ (pc \in {"close", "return"} /\ ~ioFailed
                /\ (json_data # None \/ turnover_data # None))
               => rawFile = File([index |-> json_data, turnover |-> turnover_data])

\* C36: the browser is closed at most once in a run, and after browser.close()
\* has been called the run navigates nowhere, issues no request and enters no
\* stage but its return.
C36_NoUseAfterClose ==
    [][/\ closeCalls' <= 1
       /\ closeCalls > 0 =>
            /\ requests' = requests
            /\ requests2' = requests2
            /\ landings' = landings
            /\ pc' \in {"return", "done"}]_vars

\* witness for C36: the analyst run whose page load failed has closed the
\* browser in the handler and returned
C36_Witness ==
    /\ feed = "analyst"
    /\ pc = "done"
    /\ closeCalls = 1
    /\ browser = "closed"
    /\ requests = 1
    /\ retval = NoneNone

\* C37: the summary an announcement run wrote for a fetched list holds, after
\* the header and the rule, one block per record of the list, each of the
\* eight labelled lines closed by the rule.
C37_SummaryBlocksComplete ==
    (feed = "announcement" /\ summaryFile.exists /\ Truthy(json_data)) =>
        LET records == IterOf(json_data)
            lines == summaryFile.c
            width == Len(AnnouncementFields) + 1
        IN  /\ Len(lines) = 2 + width * Len(records)
            /\ \A k \in 1..Len(records) :
                /\ lines[2 + width * k] = Rule
                /\ \A j \in 1..Len(AnnouncementFields) :
                    lines[2 + width * (k - 1) + j].label = AnnouncementFields[j][1]

====
